---- MODULE Spec2Model ----
(***************************************************************************)
(* Model of compiler/resolution/wrappers.cpp: wrapAndCleanUpActuals and    *)
(* the four stages it composes (default-value wrapper, reorder, coerce,    *)
(* promotion wrapper), the two wrapper caches and the iterator side        *)
(* tables.                                                                 *)
(***************************************************************************)
EXTENDS Integers, Sequences, FiniteSets, TLC

VARIABLES
  fns,                 \* every FnSymbol: the program's, then each one built
  defaultsCache,       \* entries [fn, key, wrapper]
  promotionsCache,     \* entries [fn, key, wrapper]
  iteratorLeaderMap,   \* entries <<wrapper, leader>>
  iteratorFollowerMap, \* entries <<wrapper, follower>>
  pc,                  \* position inside wrapAndCleanUpActuals
  cur,                 \* arguments and locals of the running invocation
  callActuals,         \* info.call's actual expressions, in call order
  ciActuals,           \* info.actuals
  ciActualNames,       \* info.actualNames
  stmtsBefore,         \* statements inserted before the call's statement
  co,                  \* locals of coerceActuals' loop
  removals,            \* number of actual->remove() performed on info.call
  stagesRun,           \* history: the stages entered by this invocation
  served,              \* history: <<kind, fn, key, wrapper>> handed to a call
  calls                \* number of call sites visited

vars == <<fns, defaultsCache, promotionsCache, iteratorLeaderMap,
          iteratorFollowerMap, pc, cur, callActuals, ciActuals,
          ciActualNames, stmtsBefore, co, removals, stagesRun, served, calls>>

----------------------------------------------------------------------------
(* Bounds *)

MaxCalls == 2          \* call sites visited in one run of Spec
MaxWrap  == 3          \* ref/sync/single layers on the actual of SpecChain
PipeWrap == 1          \* ref/sync/single layers on a lone actual in Spec

----------------------------------------------------------------------------
(* Types.  A type is a sequence: layers "ref", "sync", "single" and then   *)
(* the base type's name.                                                   *)

dtInt     == <<"int">>
dtReal    == <<"real">>
dtString  == <<"string">>
dtStringC == <<"c_string">>
dtArray   == <<"array">>
dtChild   == <<"child">>
dtParent  == <<"parent">>
dtTuple   == <<"tuple">>

Bases ==
  {"int", "real", "string", "c_string", "array", "child", "parent", "tuple"}

isSyncType(t)   == Head(t) = "sync"
isSingleType(t) == Head(t) = "single"
hasFlagRef(t)   == Head(t) = "ref"
getValType(t)   == IF hasFlagRef(t) THEN Tail(t) ELSE t
getRefType(t)   == IF hasFlagRef(t) THEN t ELSE <<"ref">> \o t
isRecordWrappedType(t) == t = dtArray

\* sync^k and sync^(k-1) single, for k layers up to d
SyncChains(d) ==
  {[i \in 1..k |-> "sync"] : k \in 0..d}
    \cup {[i \in 1..k |-> IF i = k THEN "single" ELSE "sync"] : k \in 1..d}

\* the layered forms of a base type with at most d layers
Layered(base, d) ==
  {c \o <<base>> : c \in SyncChains(d)}
    \cup (IF d = 0 THEN {}
          ELSE {<<"ref">> \o c \o <<base>> : c \in SyncChains(d - 1)})

----------------------------------------------------------------------------
(* The resolution pass's predicates this file calls.                       *)

No    == [ok |-> FALSE, promotes |-> FALSE]
Yes   == [ok |-> TRUE,  promotes |-> FALSE]
Promo == [ok |-> TRUE,  promotes |-> TRUE]

isDispatchParent(actualType, formalType) ==
  actualType = dtChild /\ formalType = dtParent

hasScalarPromotionType(t) == t = dtArray
scalarPromotionType(t)    == dtInt

RECURSIVE canDispatchP(_, _, _, _)

\* canCoerce with the promotes out-parameter: [ok, promotes]
canCoerceP(actualType, imm, formalType, fnName) ==
  IF actualType = dtInt /\ formalType = dtReal THEN Yes
  ELSE IF actualType = dtString /\ formalType = dtStringC /\ imm THEN Yes
  ELSE IF isSyncType(actualType) \/ isSingleType(actualType)
            \/ hasFlagRef(actualType)
       THEN canDispatchP(Tail(actualType), FALSE, formalType, fnName)
  ELSE No

canDispatchP(actualType, imm, formalType, fnName) ==
  IF actualType = formalType THEN Yes
  ELSE LET c == canCoerceP(actualType, imm, formalType, fnName)
       IN  IF c.ok THEN c
           ELSE IF isDispatchParent(actualType, formalType) THEN Yes
           ELSE IF /\ fnName # "="
                   /\ hasScalarPromotionType(actualType)
                   /\ canDispatchP(scalarPromotionType(actualType), FALSE,
                                   formalType, fnName).ok
                THEN Promo
           ELSE No

canCoerce(actualType, imm, formalType, fnName) ==
  canCoerceP(actualType, imm, formalType, fnName).ok

IntentFlagRef == {"ref", "const_ref", "ref_maybe_const"}

concreteIntentForArg(formal) ==
  IF isSyncType(formal.type) \/ isSingleType(formal.type)
       \/ isRecordWrappedType(formal.type) \/ formal.type = dtString
  THEN (IF formal.intent = "const" THEN "const_ref" ELSE "ref_maybe_const")
  ELSE "const_in"

fNoFastFollowers == FALSE

----------------------------------------------------------------------------
(* The program being resolved: the candidate callees.                      *)

\* dflt: "none", "expr" or "typedefault" (the gTypeDefaultToken sentinel);
\* typeExpr: the formal has a type expression; field: its name is a field
\* defined by the type of the callee's receiver
Formal(name, type, intent, dflt) ==
  [name |-> name, type |-> type, intent |-> intent, dflt |-> dflt,
   flags |-> {}, src |-> 0, typeExpr |-> FALSE, field |-> FALSE]

Fn(name, formals, retTag, isVoid, flags) ==
  [name |-> name, kind |-> "user", of |-> 0, formals |-> formals,
   retTag |-> retTag, isVoid |-> isVoid, flags |-> flags,
   callArgs |-> << >>, body |-> << >>, where |-> << >>, inTree |-> TRUE]

Program ==
  << Fn("f", << Formal("a", dtInt,  "blank", "none"),
                Formal("b", dtStringC, "blank", "expr"),
                Formal("c", dtInt,  "blank", "expr") >>,
        "value", FALSE, {}),
     Fn("h", << Formal("x", dtReal, "blank", "expr") >>,
        "value", TRUE, {}),
     Fn("p", << Formal("s", dtStringC, "blank", "none"),
                Formal("t", dtStringC, "blank", "expr") >>,
        "param", FALSE, {}),
     Fn("=", << Formal("lhs", dtInt, "ref",   "none"),
                Formal("rhs", dtInt, "blank", "none") >>,
        "value", TRUE, {"assignop"}),
     Fn("T", << Formal("x", dtInt, "blank", "none") >>,
        "type", FALSE, {"type_constructor"}) >>

numFormals(fs, fn) == Len(fs[fn].formals)

isIterator(f) == "iterator_fn" \in f.flags

RECURSIVE IncSeq(_)
IncSeq(S) ==
  IF S = {} THEN << >>
  ELSE LET m == CHOOSE x \in S : \A y \in S : x <= y
       IN  <<m>> \o IncSeq(S \ {m})

Range(s) == {s[i] : i \in DOMAIN s}

----------------------------------------------------------------------------
(* The wrapper caches (caches.h): entries keyed by callee and shape key.   *)

checkCache(cache, fn, key) ==
  IF \E e \in cache : e.fn = fn /\ e.key = key
  THEN (CHOOSE e \in cache : e.fn = fn /\ e.key = key).wrapper
  ELSE 0

addCache(cache, fn, wrapper, key) ==
  cache \cup {[fn |-> fn, key |-> key, wrapper |-> wrapper]}

----------------------------------------------------------------------------
(* buildEmptyWrapper and copyFormalForWrapper                              *)

ForwardedFlagsButLastResort ==
  {"init_copy_fn", "auto_copy_fn", "auto_destroy_fn", "donor_fn",
   "no_parens", "constructor", "field_accessor", "ref_to_const", "method",
   "method_primary", "assignop", "default_constructor", "throws"}

ForwardedFlags ==
  {"init_copy_fn", "auto_copy_fn", "auto_destroy_fn", "donor_fn",
   "no_parens", "constructor", "field_accessor", "ref_to_const", "method",
   "method_primary", "assignop", "default_constructor", "last_resort",
   "throws"}

\* a DefExpr of the procedure is inserted into a block of the program
insertDefExprForgotten(f) == f

insertDefExpr(f) == [f EXCEPT !.inTree = TRUE]

buildEmptyWrapper(fn) ==
  [name     |-> fn.name,
   kind     |-> "wrapper",
   of       |-> 0,
   formals  |-> << >>,
   retTag   |-> IF ~isIterator(fn) THEN fn.retTag ELSE "value",
   isVoid   |-> FALSE,
   flags    |-> {"wrapper", "invisible_fn", "inline", "compiler_generated"}
                  \cup (fn.flags \cap ForwardedFlags)
                  \cup (IF "compiler_generated" \in fn.flags
                        THEN {"was_compiler_generated"} ELSE {}),
   callArgs |-> << >>,
   body     |-> << >>,
   where    |-> << >>,
   inTree   |-> FALSE]

copyFormalKeepIntent(formal) ==
  [formal EXCEPT
     !.flags = IF formal.intent \in {"out", "inout"}
               THEN formal.flags \cup {"wrap_written_formal"}
               ELSE formal.flags]

copyFormalForWrapper(formal) ==
  [formal EXCEPT
     !.flags  = IF formal.intent \in {"out", "inout"}
                     \/ "wrap_written_formal" \in formal.flags
                THEN formal.flags \cup {"wrap_written_formal"}
                ELSE formal.flags,
     !.intent = IF formal.intent \in {"ref", "const_ref"}
                THEN formal.intent ELSE "blank"]

----------------------------------------------------------------------------
(* wrapDefaultedFormals                                                    *)

\* the formals no actual is mapped to, in formal order
DefaultedFormalsAll(fs, fn, actualFormals) ==
  IncSeq(1..numFormals(fs, fn))

DefaultedFormals(fs, fn, actualFormals) ==
  IncSeq({p \in 1..numFormals(fs, fn) :
            \A i \in DOMAIN actualFormals : actualFormals[i] # <<fn, p>>})

ArgClassMemeFirst(formal, p, defaults) ==
  IF p \notin Range(defaults)              THEN "supplied"
  ELSE IF "is_meme" \in formal.flags       THEN "meme"
  ELSE IF "in_param_map" \in formal.flags  THEN "param"
  ELSE "defaulted"

\* which argument the wrapper passes for formal p of the callee
ArgClass(formal, p, defaults) ==
  IF p \notin Range(defaults)              THEN "supplied"
  ELSE IF "in_param_map" \in formal.flags  THEN "param"
  ELSE IF "is_meme" \in formal.flags       THEN "meme"
  ELSE "defaulted"

\* the wrapper's formals: a copy of every formal, defaulted or not
WrapperFormalsAll(fn, defaults) ==
  [p \in 1..Len(fn.formals) |->
     [copyFormalForWrapper(fn.formals[p]) EXCEPT !.src = p]]

\* the wrapper's formals: a copy of each formal that is not defaulted
WrapperFormals(fn, defaults) ==
  LET kept == IncSeq((1..Len(fn.formals)) \ Range(defaults))
  IN  [k \in 1..Len(kept) |->
         [copyFormalForWrapper(fn.formals[kept[k]]) EXCEPT !.src = kept[k]]]

\* a statement of a wrapper's body
Stmt(op, sym, src, args, flags) ==
  [op |-> op, sym |-> sym, src |-> src, args |-> args, flags |-> flags]

specializeNever(f) == FALSE

specializeDefaultConstructor(f) ==
  "default_constructor" \in f.flags /\ "this_is_ref" \notin f.flags

blankIntentForType(t) ==
  IF isSyncType(t) \/ isSingleType(t) \/ isRecordWrappedType(t)
       \/ t = dtString
  THEN "ref_maybe_const" ELSE "const_in"

\* the statements that set the receiver's field from temp, and the argument
\* the call then passes
updateWrapCall(f, formal, temp) ==
  IF /\ specializeDefaultConstructor(f)
     /\ f.name # "_construct__tuple"
     /\ "type_variable" \notin formal.flags
     /\ "in_param_map" \notin formal.flags
     /\ formal.type # <<"method_token">>
     /\ formal.field
  THEN [stmts |-> << Stmt("def", <<"wrap_arg", formal.name>>, << >>, << >>,
                          {}),
                     Stmt("move", <<"wrap_arg", formal.name>>,
                          <<"chpl__autoCopy">> \o temp, << >>, {}),
                     Stmt("set_member", <<formal.name>>,
                          <<"wrap_arg", formal.name>>, << >>, {}) >>,
        arg   |-> <<"wrap_arg", formal.name>>]
  ELSE [stmts |-> << >>, arg |-> temp]

\* [stmts, arg, afterThis] for a formal the call site supplies
formalIsNotDefaulted(f, formal) ==
  LET wrapFnFormal == <<"formal", formal.name>>
      afterThis ==
        IF "is_meme" \in formal.flags /\ specializeDefaultConstructor(f)
        THEN << Stmt("move", <<"this">>, wrapFnFormal, << >>, {}) >>
        ELSE << >>
      refTemp  == <<"wrap_ref_arg", formal.name>>
      typeTemp == <<"wrap_type_arg", formal.name>>
  IN  IF hasFlagRef(formal.type)
      THEN LET u == updateWrapCall(f, formal, refTemp)
           IN  [stmts |-> << Stmt("def", refTemp, << >>, << >>,
                                  {"maybe_param"}),
                             Stmt("move", refTemp,
                                  <<"addr_of">> \o wrapFnFormal, << >>, {}) >>
                            \o u.stmts,
                arg |-> u.arg, afterThis |-> afterThis]
      ELSE IF /\ specializeDefaultConstructor(f)
              /\ formal.typeExpr
              /\ isRecordWrappedType(formal.type)
      THEN LET u == updateWrapCall(f, formal, typeTemp)
           IN  [stmts |-> << Stmt("def", typeTemp, << >>, << >>,
                                  IF formal.field
                                  THEN {"insert_auto_destroy"} ELSE {}),
                             Stmt("move", typeTemp, <<"init", "type_expr">>,
                                  << >>, {}),
                             Stmt("assign", typeTemp, wrapFnFormal, << >>,
                                  {}) >>
                            \o u.stmts,
                arg |-> u.arg, afterThis |-> afterThis]
      ELSE LET u == updateWrapCall(f, formal, wrapFnFormal)
           IN  [stmts |-> u.stmts, arg |-> u.arg, afterThis |-> afterThis]

usesTypeDefaultIfAbsent(formal, intent) ==
  intent = "out" \/ formal.dflt = "none"

\* the temporary is populated from the type's default, not the formal's
usesTypeDefault(formal, intent) ==
  \/ intent = "out"
  \/ formal.dflt = "none"
  \/ formal.dflt = "typedefault"

\* what the temporary of a formal without a usable default expression gets
defaultedFormalApplyDefaultForType(formal) ==
  IF formal.typeExpr
  THEN IF "type_variable" \in formal.flags
       THEN <<"type_expr">> ELSE <<"init", "type_expr">>
  ELSE IF "type_variable" \in formal.flags
       THEN <<"type">> ELSE <<"init", "type">>

\* [stmts, arg, afterThis] for a formal the wrapper supplies the default of
formalIsDefaulted(f, formal) ==
  LET temp   == <<"default_arg", formal.name>>
      intent == IF /\ formal.type # <<"type_default_token">>
                   /\ formal.type # <<"method_token">>
                   /\ formal.intent = "blank"
                THEN blankIntentForType(formal.type) ELSE formal.intent
      flags  == (IF intent \notin {"inout", "out"}
                 THEN {"maybe_param", "expr_temp"} ELSE {})
                  \cup (formal.flags \cap {"type_variable"})
      src    == IF usesTypeDefault(formal, intent)
                THEN defaultedFormalApplyDefaultForType(formal)
                ELSE IF specializeDefaultConstructor(f)
                THEN <<"chpl__initCopy", "default_expr">>
                ELSE IF intent \in IntentFlagRef
                THEN <<"addr_of", "default_expr">>
                ELSE <<"default_expr">>
      setMember ==
        IF /\ specializeDefaultConstructor(f)
           /\ f.name # "_construct__tuple"
           /\ "type_variable" \notin formal.flags
           /\ formal.field
        THEN << Stmt("set_member", <<formal.name>>, temp, << >>, {}) >>
        ELSE << >>
  IN  [stmts |-> << Stmt("def", temp, << >>, << >>, flags),
                    Stmt("move", temp, src, << >>, {}) >> \o setMember,
       arg |-> temp, afterThis |-> << >>]

insertAtHead(body, stmts) == stmts \o body

\* statements are added at the end of the wrapper's body
insertAtTail(body, stmts) == body \o stmts

\* the loop over the callee's formals: [body, args, afterThis]
RECURSIVE WrapperBody(_, _, _, _)
WrapperBody(f, defaults, p, acc) ==
  IF p > Len(f.formals) THEN acc
  ELSE LET formal == f.formals[p]
           class  == ArgClass(formal, p, defaults)
           r == CASE class = "supplied"  -> formalIsNotDefaulted(f, formal)
                  [] class = "param"     ->
                       [stmts |-> << >>, arg |-> <<"param", formal.name>>,
                        afterThis |-> << >>]
                  [] class = "meme"      ->
                       [stmts |-> << >>, arg |-> <<"this">>,
                        afterThis |-> << >>]
                  [] class = "defaulted" -> formalIsDefaulted(f, formal)
       IN  WrapperBody(f, defaults, p + 1,
                       [body      |-> insertAtTail(acc.body, r.stmts),
                        args      |-> Append(acc.args, r.arg),
                        afterThis |-> r.afterThis \o acc.afterThis])

insertWrappedCallWithResult(f, args) ==
  << Stmt("def", <<"wrap_call_tmp">>, << >>, << >>,
          {"expr_temp", "maybe_param", "maybe_type"}),
     Stmt("move", <<"wrap_call_tmp">>, <<"call", f.name>>, args, {}),
     Stmt("return", <<"wrap_call_tmp">>, << >>, << >>, {}) >>

\* the statements that close the wrapper's body
insertWrappedCall(f, args) ==
  IF f.isVoid
  THEN << Stmt("call", <<f.name>>, << >>, args, {}) >>
  ELSE << Stmt("def", <<"wrap_call_tmp">>, << >>, << >>,
               {"expr_temp", "maybe_param", "maybe_type"}),
          Stmt("move", <<"wrap_call_tmp">>, <<"call", f.name>>, args, {}),
          Stmt("return", <<"wrap_call_tmp">>, << >>, << >>, {}) >>

\* the statements that set up the receiver of a default constructor's wrapper
thisPrologue(f, defaults, afterThis) ==
  IF ~specializeDefaultConstructor(f) THEN << >>
  ELSE << Stmt("def", <<"this">>, << >>, << >>, {}) >>
         \o afterThis
         \o (IF /\ "is_meme" \in f.formals[defaults[Len(defaults)]].flags
                /\ "this_is_record" \notin f.flags
             THEN << Stmt("move", <<"this">>, <<"chpl_here_alloc">>, << >>,
                          {}),
                     Stmt("setcid", <<"this">>, << >>, << >>, {}) >>
             ELSE << >>)
         \o << Stmt("init_fields", <<"this">>, << >>, << >>, {}) >>

buildWrapperForDefaultedFormals(fs, fn, defaults) ==
  LET f == fs[fn]
      w == buildEmptyWrapper(f)
      b == WrapperBody(f, defaults, 1,
                       [body |-> << >>, args |-> << >>, afterThis |-> << >>])
  IN  [w EXCEPT
         !.kind     = "default_wrapper",
         !.of       = fn,
         !.flags    = IF specializeDefaultConstructor(f)
                      THEN w.flags \ {"compiler_generated"} ELSE w.flags,
         !.formals  = WrapperFormals(f, defaults),
         !.callArgs = [p \in 1..Len(f.formals) |->
                         ArgClass(f.formals[p], p, defaults)],
         !.body     = thisPrologue(f, defaults, b.afterThis)
                        \o b.body \o insertWrappedCall(f, b.args),
         !.isVoid   = f.isVoid,
         !.inTree   = insertDefExpr(w).inTree]

RECURSIVE UpdateActualFormals(_, _, _, _, _, _, _)
UpdateActualFormals(af, fn, retval, nF, p, i, j) ==
  IF p > nF THEN af
  ELSE IF i > Len(af) THEN UpdateActualFormals(af, fn, retval, nF, p + 1, 1, j)
  ELSE IF af[i] = <<fn, p>>
       THEN UpdateActualFormals([af EXCEPT ![i] = <<retval, j>>],
                                fn, retval, nF, p, i + 1, j + 1)
  ELSE UpdateActualFormals(af, fn, retval, nF, p, i + 1, j)

\* [fns, cache, retval, actualFormals, key, hit]
wrapDefaultedFormals(fs, cache, fn, actualFormals) ==
  LET defaults == DefaultedFormals(fs, fn, actualFormals)
      cached   == checkCache(cache, fn, defaults)
      hit      == cached # 0
      retval   == IF hit THEN cached ELSE Len(fs) + 1
  IN  [fns    |-> IF hit THEN fs
                  ELSE Append(fs, buildWrapperForDefaultedFormals(fs, fn, defaults)),
       cache  |-> IF hit THEN cache ELSE addCache(cache, fn, retval, defaults),
       retval |-> retval,
       actualFormals |->
         UpdateActualFormals(actualFormals, fn, retval, numFormals(fs, fn), 1, 1, 1),
       key    |-> defaults,
       hit    |-> hit]

----------------------------------------------------------------------------
(* reorderActuals                                                          *)

\* formalsToFormals[i]: the index of the actual mapped to formal i
formalsToFormals(fn, actualFormals) ==
  [i \in 1..Len(actualFormals) |->
     IF \E j \in DOMAIN actualFormals : actualFormals[j] = <<fn, i>>
     THEN CHOOSE j \in DOMAIN actualFormals :
            /\ actualFormals[j] = <<fn, i>>
            /\ \A k \in DOMAIN actualFormals :
                 actualFormals[k] = <<fn, i>> => k <= j
     ELSE 1]

needToReorderAlways(fs, fn, actualFormals) == TRUE

needToReorder(fs, fn, actualFormals) ==
  \E i \in 1..numFormals(fs, fn), j \in DOMAIN actualFormals :
    actualFormals[j] = <<fn, i>> /\ i # j

\* the inverse arrangement: element i goes to place f2f[i]
PermuteInverse(seq, f2f) ==
  [i \in DOMAIN seq |-> seq[CHOOSE k \in DOMAIN seq : f2f[k] = i]]

\* element i of the result is element f2f[i] of seq
Permute(seq, f2f) ==
  [i \in DOMAIN seq |-> seq[f2f[i]]]

----------------------------------------------------------------------------
(* coerceActuals                                                           *)

ChecksLeftInit == 6

getIntent(formal) ==
  IF formal.intent \in {"blank", "const"}
       /\ "iterator_record" \notin formal.flags
  THEN concreteIntentForArg(formal)
  ELSE formal.intent

needToAddCoercionCoerceFirst(actualType, formal, cc, dp) ==
  IF actualType = formal.type THEN FALSE
  ELSE IF cc THEN TRUE
  ELSE IF /\ actualType = getRefType(formal.type)
          /\ getIntent(formal) \in IntentFlagRef
       THEN FALSE
  ELSE dp

\* cc, dp: the answers of canCoerce and isDispatchParent
needToAddCoercion(actualType, formal, cc, dp) ==
  IF actualType = formal.type THEN FALSE
  ELSE IF /\ actualType = getRefType(formal.type)
          /\ getIntent(formal) \in IntentFlagRef
       THEN FALSE
  ELSE IF cc THEN TRUE
  ELSE IF dp THEN TRUE
  ELSE FALSE

isStringLiteralToCString(actualSym, formal) ==
  /\ formal.type = dtStringC
  /\ actualSym.type = dtString
  /\ actualSym.imm

hasFlagTuple(t) == Head(t) = "tuple"

CoercionOpDerefTuples(ats, formal) ==
  IF isSyncType(ats) THEN "readFE"
  ELSE IF isSingleType(ats) THEN "readFF"
  ELSE IF hasFlagRef(ats) THEN "deref"
  ELSE "cast"

\* the cast operation addArgCoercion builds for an actual of type ats
CoercionOp(ats, formal) ==
  IF isSyncType(ats) THEN "readFE"
  ELSE IF isSingleType(ats) THEN "readFF"
  ELSE IF /\ hasFlagRef(ats)
          /\ ~(hasFlagTuple(getValType(ats))
                 /\ hasFlagTuple(getValType(formal.type)))
       THEN "deref"
  ELSE "cast"

checkAgain(op) == op \in {"readFE", "readFF", "deref"}

\* the type resolveCall gives the temporary: what the cast call returns
ResultTypes(op, ats, formal) ==
  IF op = "cast" THEN {formal.type}
  ELSE IF op = "deref" THEN {Tail(ats)}
  ELSE {Tail(ats)} \cup (IF hasFlagRef(Tail(ats)) THEN {}
                         ELSE {<<"ref">> \o Tail(ats)})

\* resolvedFunction() is NULL for a primitive: only a call can fail to resolve
CastMayFail(op) == op # "deref"

\* castCall->resolvedFunction(): none, or a function that carries
\* FLAG_RESOLVED ("resolved") or lacks it ("unresolved")
CastTargets(op) ==
  IF CastMayFail(op) THEN {"resolved", "unresolved"} ELSE {"none"}

castFailsWithoutTarget(target) == target # "resolved"

\* the cast target exists and has not been resolved
castFails(target) == target = "unresolved"

insertBeforeReversed(stmts, new) == new \o stmts

\* call->getStmtExpr()->insertBefore(...), stmts being the statements that
\* already stand before the call's statement
insertBefore(stmts, new) == stmts \o new

castTempFlags(actualSym, formal, op) ==
  {"coerce_temp"}
    \cup (IF "arg_this" \in actualSym.flags
               /\ isDispatchParent(actualSym.type, formal.type)
          THEN {"arg_this"} ELSE {})
    \cup (IF op = "deref" /\ "ref_to_const" \in actualSym.flags
          THEN {"const"} \cup (actualSym.flags
                                 \cap {"ref_for_const_field_of_this"})
          ELSE {})
    \cup (IF op = "cast" /\ formal.type = dtString
          THEN {"insert_auto_destroy"} ELSE {})

\* [actual, actualSym, checkAgain, stmts, error]: one coercion step on an
\* actual; the move is resolved unless the cast target stopped the compiler
addArgCoercion(formal, actualExpr, actualSym, stmts, resultType, target) ==
  LET op       == CoercionOp(actualSym.type, formal)
      castTemp == [tag   |-> "coerce_tmp",
                   idx   |-> (Len(stmts) \div 2) + 1,
                   type  |-> resultType,
                   imm   |-> FALSE,
                   flags |-> castTempFlags(actualSym, formal, op)]
  IN  [actual     |-> [actualExpr EXCEPT !.sym = castTemp],
       actualSym  |-> castTemp,
       checkAgain |-> checkAgain(op),
       stmts      |-> insertBefore(stmts,
                        << [op |-> "def",  sym |-> castTemp.idx,
                            rhs |-> "", arg |-> actualExpr.sym],
                           [op |-> "move", sym |-> castTemp.idx,
                            rhs |-> op, arg |-> actualExpr.sym,
                            target |-> target,
                            resolved |-> ~castFails(target)] >>),
       error      |-> IF castFails(target)
                      THEN <<"Error resolving a cast from", actualSym.type,
                             formal.type>>
                      ELSE << >>]

loopContinuesUnbounded(c2, checksLeft) == c2

loopContinuesPostDecrement(c2, checksLeft) == c2 /\ checksLeft > 0

\* while (c2 && --checksLeft > 0)
loopContinues(c2, checksLeft) == c2 /\ checksLeft - 1 > 0

coerceSkippedNever(fn) == FALSE

\* if (fn->retTag == RET_PARAM) return;
coerceSkipped(fn) == fn.retTag = "param"

----------------------------------------------------------------------------
(* isPromotionRequired, promotionWrap, buildPromotionWrapper               *)

promotionActualType(t) ==
  IF isRecordWrappedType(t) THEN getRefType(t) ELSE t

promotes(actualSym, formal, fnName) ==
  LET d == canDispatchP(promotionActualType(actualSym.type), actualSym.imm,
                        formal.type, fnName)
  IN  d.ok /\ d.promotes

promotionSkippedNever(fn) == FALSE

promotionSkipped(fn) ==
  fn.name = "=" \/ "type_constructor" \in fn.flags

isPromotionRequired(fn, actuals) ==
  /\ ~promotionSkipped(fn)
  /\ \E j \in 1..Len(fn.formals) : promotes(actuals[j], fn.formals[j], fn.name)

\* promoted_subs: promoted formal -> the concrete type of its actual
promotedSubs(fn, actuals) ==
  [j \in {k \in 1..Len(fn.formals) :
            promotes(actuals[k], fn.formals[k], fn.name)} |->
     promotionActualType(actuals[j].type)]

promotionFormalsUntyped(fn, subs) ==
  [j \in 1..Len(fn.formals) |->
     [copyFormalForWrapper(fn.formals[j]) EXCEPT !.src = j]]

\* the wrapper's formals: copies, the promoted ones retyped
promotionFormals(fn, subs) ==
  [j \in 1..Len(fn.formals) |->
     [copyFormalForWrapper(fn.formals[j]) EXCEPT
        !.src  = j,
        !.type = IF j \in DOMAIN subs THEN subs[j] ELSE @]]

promotionIsVoidNever(fn) == FALSE

\* the callee returns void: the wrapper is a forall statement, no iterator
promotionIsVoid(fn) == fn.isVoid

fastFollowerCheck(isStatic, addLead, wrapperId) ==
  [name     |-> IF isStatic THEN "chpl__staticFastFollowCheck"
                ELSE "chpl__dynamicFastFollowCheck",
   kind     |-> "probe",
   of       |-> wrapperId,
   formals  |-> << Formal("x", <<"iterator_record">>, "blank", "none") >>
                  \o (IF addLead
                      THEN << Formal("lead", <<"any">>, "blank", "none") >>
                      ELSE << >>),
   retTag   |-> IF isStatic THEN "param" ELSE "value",
   isVoid   |-> FALSE,
   flags    |-> {"generic"},
   callArgs |-> << >>,
   body     |-> << >>,
   where    |-> <<"==", <<"typeof", "x">>, <<"typeof", "call">> >>,
   inTree   |-> insertDefExpr([inTree |-> FALSE]).inTree]

\* astr("p_i_", istr(i)), i the position of the formal
indexName(i) == <<"p_i_", i>>

\* a _build_tuple call, and its only element when it has one element
collapse(elems) == [tuple |-> Len(elems) # 1, elems |-> elems]

isZipperedAlways(iteratorCall) == TRUE

\* zippered, true until the iterator tuple is found to have one element
isZippered(iteratorCall) == Len(iteratorCall) # 1

\* a for or forall loop over iterator, its indices bound in body
LoopStmt(kind, indices, iterator, zippered, body) ==
  [op |-> kind, indices |-> indices, iterator |-> iterator,
   zippered |-> zippered, body |-> body]

isLoopStmt(st) == st.op \in {"for", "forall"}

\* def p_yield; move p_yield, fn(actualCall); yield p_yield
yieldBlock(f, actualCall) ==
  << Stmt("def",   <<"p_yield">>, << >>, << >>, {"expr_temp"}),
     Stmt("move",  <<"p_yield">>, <<"call", f.name>>, actualCall, {}),
     Stmt("yield", <<"p_yield">>, << >>, << >>, {}) >>

\* st calls fn
callsFn(st, fname) ==
  \/ st.op = "call" /\ st.sym = <<fname>>
  \/ st.op = "move" /\ st.src = <<"call", fname>>

\* the variables a loop defines: one for each of its indices
loopDefs(loop) == Range(loop.indices.elems)

\* the unresolved names among the actuals of the calls to fn in a loop
\* that the loop does not define
unmatchedNames(body, fname) ==
  UNION {UNION {{body[n].body[m].args[k][2] :
                   k \in {x \in DOMAIN body[n].body[m].args :
                            /\ body[n].body[m].args[x][1] = "unresolved"
                            /\ body[n].body[m].args[x][2]
                                 \notin loopDefs(body[n])}}
                : m \in {y \in DOMAIN body[n].body :
                           callsFn(body[n].body[y], fname)}}
         : n \in {z \in DOMAIN body : isLoopStmt(body[z])}}

fixUnresolvedNothing(body, fname) == body

\* every unresolved name passed to fn is replaced by the loop's definition
\* of that name
fixUnresolvedSymExprsForPromotionWrapper(body, fname) ==
  [n \in DOMAIN body |->
     IF ~isLoopStmt(body[n]) THEN body[n]
     ELSE [body[n] EXCEPT !.body =
             [m \in DOMAIN body[n].body |->
                LET st == body[n].body[m]
                IN  IF ~callsFn(st, fname) THEN st
                    ELSE [st EXCEPT !.args =
                            [k \in DOMAIN st.args |->
                               IF /\ st.args[k][1] = "unresolved"
                                  /\ st.args[k][2] \in loopDefs(body[n])
                               THEN <<"index", st.args[k][2]>>
                               ELSE st.args[k]]]]]]

\* indicesCall, iteratorCall and actualCall after the loop over the formals
indicesCall(f, subs) ==
  LET promoted == IncSeq(DOMAIN subs)
  IN  [k \in 1..Len(promoted) |-> indexName(promoted[k])]

iteratorCall(f, subs) ==
  LET promoted == IncSeq(DOMAIN subs)
  IN  [k \in 1..Len(promoted) |-> <<"formal", f.formals[promoted[k]].name>>]

actualCall(f, subs) ==
  [j \in 1..Len(f.formals) |->
     IF j \in DOMAIN subs THEN <<"unresolved", indexName(j)>>
     ELSE <<"formal", f.formals[j].name>>]

\* the body of the wrapper as built: a forall statement around the call
\* for a void callee, else a for loop that yields the call's result
serialBody(f, subs) ==
  LET indices  == collapse(indicesCall(f, subs))
      iterator == collapse(iteratorCall(f, subs))
      zippered == isZippered(iteratorCall(f, subs))
  IN  IF promotionIsVoid(f)
      THEN << LoopStmt("forall", indices, iterator, zippered,
                       << Stmt("call", <<f.name>>, << >>,
                               actualCall(f, subs), {}) >>) >>
      ELSE << LoopStmt("for", indices, iterator, zippered,
                       yieldBlock(f, actualCall(f, subs))) >>

\* the body of the leader
leaderBody(f, subs) ==
  LET iterator == collapse(iteratorCall(f, subs))
      zippered == isZippered(iteratorCall(f, subs))
  IN  << Stmt("def", <<"p_leaderIterator">>, << >>, << >>, {"expr_temp"}),
         Stmt("move", <<"p_leaderIterator">>,
              <<IF zippered THEN "_toLeaderZip" ELSE "_toLeader">>,
              <<iterator>>, {}),
         LoopStmt("for", collapse(<< <<"p_leaderIndex">> >>),
                  collapse(<< <<"p_leaderIterator">> >>), zippered,
                  << Stmt("yield", <<"p_leaderIndex">>, << >>, << >>,
                          {}) >>) >>

\* the body of the follower as built
followerBody(f, subs) ==
  LET indices  == collapse(indicesCall(f, subs))
      iterator == collapse(iteratorCall(f, subs))
      zippered == isZippered(iteratorCall(f, subs))
  IN  << Stmt("def", <<"p_followerIterator">>, << >>, << >>, {"expr_temp"}),
         Stmt("cond", <<"fast">>, << >>,
              << Stmt("move", <<"p_followerIterator">>,
                      <<IF zippered THEN "_toFastFollowerZip"
                        ELSE "_toFastFollower">>,
                      <<iterator, <<"formal", "followThis">> >>, {}),
                 Stmt("move", <<"p_followerIterator">>,
                      <<IF zippered THEN "_toFollowerZip"
                        ELSE "_toFollower">>,
                      <<iterator, <<"formal", "followThis">> >>, {}) >>,
              {}),
         LoopStmt("for", indices, collapse(<< <<"p_followerIterator">> >>),
                  zippered, yieldBlock(f, actualCall(f, subs))) >>

\* INT_ASSERT(found) holds for every unresolved name of the family
fixFindsAll(f, subs) ==
  /\ unmatchedNames(serialBody(f, subs), f.name) = {}
  /\ promotionIsVoid(f)
       \/ unmatchedNames(followerBody(f, subs), f.name) = {}

buildsFastFollowerChecksAlways(buildFastFollowerChecks) == ~fNoFastFollowers

\* if (!fNoFastFollowers && buildFastFollowerChecks)
buildsFastFollowerChecks(buildFastFollowerChecks) ==
  ~fNoFastFollowers /\ buildFastFollowerChecks

\* the procedures built, in allocation order: the wrapper first
buildPromotionWrapper(fs, fn, subs, buildFastFollowerChecks) ==
  LET f       == fs[fn]
      id      == Len(fs) + 1
      e       == buildEmptyWrapper(f)
      base    == [e EXCEPT
                    !.kind    = "promotion_wrapper",
                    !.of      = fn,
                    !.formals = promotionFormals(f, subs),
                    !.flags   = (e.flags \cup {"promotion_wrapper"})
                                   \ {"default_constructor"}]
      iter    == [base EXCEPT
                    !.flags = (base.flags \cup {"iterator_fn"}) \ {"inline"}]
      lifn    == [insertDefExpr(iter) EXCEPT
                    !.kind    = "leader",
                    !.of      = id,
                    !.formals = @ \o << Formal("tag", <<"leader_tag">>,
                                               "param", "none") >>,
                    !.where   = <<"==", "tag", "gLeaderTag">>,
                    !.flags   = @ \cup {"inline_iterator", "generic"},
                    !.body    = leaderBody(f, subs)]
      fifn    == [insertDefExpr(iter) EXCEPT
                    !.kind    = "follower",
                    !.of      = id,
                    !.formals = @ \o
                      << Formal("tag", <<"follower_tag">>, "param", "none"),
                         Formal("followThis", <<"any">>, "blank", "none"),
                         Formal("fast", <<"bool">>, "param", "gFalse") >>,
                    !.where   = <<"==", "tag", "gFollowerTag">>,
                    !.flags   = @ \cup {"generic"},
                    !.body    =
                      fixUnresolvedSymExprsForPromotionWrapper(
                        followerBody(f, subs), f.name)]
      probes  == IF buildsFastFollowerChecks(buildFastFollowerChecks)
                 THEN << fastFollowerCheck(TRUE,  FALSE, id),
                         fastFollowerCheck(TRUE,  TRUE,  id),
                         fastFollowerCheck(FALSE, FALSE, id),
                         fastFollowerCheck(FALSE, TRUE,  id) >>
                 ELSE << >>
      body    == fixUnresolvedSymExprsForPromotionWrapper(
                   serialBody(f, subs), f.name)
  IN  IF promotionIsVoid(f)
      THEN << insertDefExpr([base EXCEPT !.isVoid = TRUE, !.body = body]) >>
      ELSE << insertDefExpr([iter EXCEPT !.body = body]), lifn, fifn >>
             \o probes

\* [fns, cache, leaders, followers, retval, key, hit, halt]
promotionWrap(fs, cache, leaders, followers, fn, actuals, ffc) ==
  LET subs    == promotedSubs(fs[fn], actuals)
      cached  == checkCache(cache, fn, subs)
      hit     == cached # 0
      built   == buildPromotionWrapper(fs, fn, subs, ffc)
      id      == Len(fs) + 1
      nonVoid == Len(built) > 1
  IN  IF promotionSkipped(fs[fn]) \/ DOMAIN subs = {}
      THEN [fns |-> fs, cache |-> cache, leaders |-> leaders,
            followers |-> followers, retval |-> fn, key |-> subs,
            hit |-> FALSE, halt |-> FALSE]
      ELSE [fns       |-> IF hit THEN fs ELSE fs \o built,
            cache     |-> IF hit THEN cache ELSE addCache(cache, fn, id, subs),
            leaders   |-> IF hit \/ ~nonVoid THEN leaders
                          ELSE leaders \cup {<<id, id + 1>>},
            followers |-> IF hit \/ ~nonVoid THEN followers
                          ELSE followers \cup {<<id, id + 2>>},
            retval    |-> IF hit THEN cached ELSE id,
            key       |-> subs,
            hit       |-> hit,
            halt      |-> ~hit /\ ~fixFindsAll(fs[fn], subs)]

----------------------------------------------------------------------------
(* wrapAndCleanUpActuals: the stage guards and the order of the stages     *)

defaultsGuard(numActuals, nFormals) == numActuals < nFormals

reorderGuardAtLeastOne(numActuals) == numActuals >= 1

reorderGuard(numActuals) == numActuals > 1

coerceGuard(numActuals) == numActuals > 0

NextPcCoerceFirst(stage) ==
  CASE stage = "default" -> "coerce"
    [] stage = "coerce"  -> "reorder"
    [] stage = "reorder" -> "promote"
    [] stage = "promote" -> "done"

\* where control goes when a stage is over
NextPc(stage) ==
  CASE stage = "default" -> "reorder"
    [] stage = "reorder" -> "coerce"
    [] stage = "coerce"  -> "promote"
    [] stage = "promote" -> "done"

----------------------------------------------------------------------------
(* State                                                                   *)

NoSym == [tag |-> "none", idx |-> 0, type |-> <<"void">>, imm |-> FALSE,
          flags |-> {}]

IdleCo == [j |-> 0, actualSym |-> NoSym, c2 |-> FALSE, checksLeft |-> 0,
           iters |-> 0, steps |-> 0]

IdleCur == [fn |-> 0, retval |-> 0, effective |-> 0, actualFormals |-> << >>,
            ffc |-> FALSE, numActuals |-> 0, map |-> << >>, names |-> << >>,
            free |-> FALSE, halt |-> "none", error |-> << >>,
            dSeen |-> FALSE, dBuilt |-> 0, pSeen |-> FALSE, pBuilt |-> 0]

ActualSym(i, type, imm) ==
  [tag |-> "actual", idx |-> i, type |-> type, imm |-> imm, flags |-> {}]

\* the actual->formal maps resolution can hand over for callee f: every
\* actual to a formal of its own, every formal without a default supplied
Mappings(f) ==
  LET nF == Len(f.formals)
  IN  UNION {{m \in [1..n -> 1..nF] :
                /\ \A i, k \in 1..n : m[i] = m[k] => i = k
                /\ \A q \in 1..nF :
                     f.formals[q].dflt = "none" => \E i \in 1..n : m[i] = q}
             : n \in 0..nF}

\* an actual is passed by name from the first one that is out of place on
ActualName(f, m, i) ==
  IF \E k \in 1..i : m[k] # k THEN f.formals[m[i]].name ELSE ""

\* the types (and literal-ness) of an actual that dispatches to the formal
ActualKinds(formal, fnName, depth) ==
  {a \in (UNION {{[type |-> t, imm |-> FALSE] :
                    t \in Layered(b, IF b = "array" THEN depth \div 2
                                     ELSE depth)}
                 : b \in Bases})
           \cup {[type |-> dtString, imm |-> TRUE]} :
     canDispatchP(a.type, a.imm, formal.type, fnName).ok}

RECURSIVE ActualVectors(_, _, _, _)
ActualVectors(f, m, depth, i) ==
  IF i > Len(m) THEN {<< >>}
  ELSE {<<ActualSym(i, a.type, a.imm)>> \o rest :
          a \in ActualKinds(f.formals[m[i]], f.name, depth),
          rest \in ActualVectors(f, m, depth, i + 1)}

\* a call site as wrapAndCleanUpActuals receives it: its arguments ...
SiteCurOf(f, fn, m, free) ==
  [IdleCur EXCEPT
     !.fn = fn, !.retval = fn, !.effective = fn,
     !.actualFormals = [i \in 1..Len(m) |-> <<fn, m[i]>>],
     !.numActuals = Len(m), !.map = m,
     !.names = [i \in 1..Len(m) |-> ActualName(f, m, i)],
     !.free = free]

SiteCur(fn, m, free) == SiteCurOf(Program[fn], fn, m, free)

\* ... and the actual expressions of info.call
SiteActualsOf(f, m, actuals) ==
  [i \in 1..Len(m) |->
     [name |-> ActualName(f, m, i), sym |-> actuals[i]]]

SiteActuals(fn, m, actuals) == SiteActualsOf(Program[fn], m, actuals)

CallSite(fn, m, actuals, free) ==
  /\ cur' = SiteCur(fn, m, free)
  /\ callActuals' = SiteActuals(fn, m, actuals)
  /\ ciActuals' = actuals
  /\ ciActualNames' = SiteCur(fn, m, free).names
  /\ stmtsBefore' = << >>
  /\ co' = IdleCo
  /\ removals' = 0
  /\ stagesRun' = << >>
  /\ pc' = "default"

Init ==
  /\ fns = Program
  /\ defaultsCache = {}
  /\ promotionsCache = {}
  /\ iteratorLeaderMap = {}
  /\ iteratorFollowerMap = {}
  /\ pc = "idle"
  /\ cur = IdleCur
  /\ callActuals = << >>
  /\ ciActuals = << >>
  /\ ciActualNames = << >>
  /\ stmtsBefore = << >>
  /\ co = IdleCo
  /\ removals = 0
  /\ stagesRun = << >>
  /\ served = {}
  /\ calls = 0

WrapFor(n) == IF n = 1 THEN PipeWrap ELSE 0

\* the call sites of the program: callee, actual->formal map, actuals
CallSites ==
  UNION {UNION {{<<fn, m, actuals>> :
                   actuals \in ActualVectors(Program[fn], m,
                                             WrapFor(Len(m)), 1)}
                : m \in Mappings(Program[fn])}
         : fn \in 1..Len(Program)}

\* the resolution pass visits the next call site
StartCall ==
  /\ pc \in {"idle", "done"}
  /\ calls < MaxCalls
  /\ \E site \in CallSites : CallSite(site[1], site[2], site[3], FALSE)
  /\ calls' = calls + 1
  /\ UNCHANGED <<fns, defaultsCache, promotionsCache, iteratorLeaderMap,
                 iteratorFollowerMap, served>>

\* the formals the call site really omits (from the map resolution gave)
OmittedFormals ==
  IncSeq((1..numFormals(fns, cur.fn)) \ Range(cur.map))

Seen(kind, fn, key) ==
  \E e \in served : e.kind = kind /\ e.fn = fn /\ e.key = key

Serve(kind, fn, key, wrapper) ==
  served \cup {[kind |-> kind, fn |-> fn, key |-> key, wrapper |-> wrapper]}

\* stage 1 runs: retval = wrapDefaultedFormals(retval, info, actualIdxToFormal)
WrapDefaults ==
  /\ pc = "default"
  /\ defaultsGuard(cur.numActuals, numFormals(fns, cur.fn))
  /\ \E r \in {wrapDefaultedFormals(fns, defaultsCache, cur.retval,
                                    cur.actualFormals)} :
         /\ fns' = r.fns
         /\ defaultsCache' = r.cache
         /\ cur' = [cur EXCEPT
                      !.retval = r.retval, !.effective = r.retval,
                      !.actualFormals = r.actualFormals,
                      !.dSeen = Seen("default", cur.fn, OmittedFormals),
                      !.dBuilt = Len(r.fns) - Len(fns)]
         /\ served' = Serve("default", cur.fn, OmittedFormals, r.retval)
  /\ stagesRun' = Append(stagesRun, "default")
  /\ pc' = NextPc("default")
  /\ UNCHANGED <<promotionsCache, iteratorLeaderMap, iteratorFollowerMap,
                 callActuals, ciActuals, ciActualNames, stmtsBefore, co,
                 removals, calls>>

SkipDefaults ==
  /\ pc = "default"
  /\ ~defaultsGuard(cur.numActuals, numFormals(fns, cur.fn))
  /\ pc' = NextPc("default")
  /\ UNCHANGED <<fns, defaultsCache, promotionsCache, iteratorLeaderMap,
                 iteratorFollowerMap, cur, callActuals, ciActuals,
                 ciActualNames, stmtsBefore, co, removals, stagesRun, served,
                 calls>>

\* stage 2 runs: reorderActuals(retval, info, actualIdxToFormal)
ReorderActuals ==
  /\ pc = "reorder"
  /\ reorderGuard(Len(cur.actualFormals))
  /\ LET f2f == formalsToFormals(cur.retval, cur.actualFormals)
     IN  IF needToReorder(fns, cur.retval, cur.actualFormals)
         THEN /\ callActuals' = Permute(callActuals, f2f)
              /\ ciActuals' = Permute(ciActuals, f2f)
              /\ ciActualNames' = Permute(ciActualNames, f2f)
              /\ removals' = removals + Len(callActuals)
         ELSE UNCHANGED <<callActuals, ciActuals, ciActualNames, removals>>
  /\ stagesRun' = Append(stagesRun, "reorder")
  /\ pc' = NextPc("reorder")
  /\ UNCHANGED <<fns, defaultsCache, promotionsCache, iteratorLeaderMap,
                 iteratorFollowerMap, cur, stmtsBefore, co, served, calls>>

SkipReorder ==
  /\ pc = "reorder"
  /\ ~reorderGuard(Len(cur.actualFormals))
  /\ pc' = NextPc("reorder")
  /\ UNCHANGED <<fns, defaultsCache, promotionsCache, iteratorLeaderMap,
                 iteratorFollowerMap, cur, callActuals, ciActuals,
                 ciActualNames, stmtsBefore, co, removals, stagesRun, served,
                 calls>>

\* the locals of coerceActuals' loop at the head of formal j
CoerceAt(j) ==
  [j |-> j, actualSym |-> ciActuals[j], c2 |-> FALSE,
   checksLeft |-> ChecksLeftInit, iters |-> 0, steps |-> 0]

\* stage 3 is entered: coerceActuals(retval, info), up to its loop
CoerceActuals ==
  /\ pc = "coerce"
  /\ coerceGuard(Len(ciActuals))
  /\ stagesRun' = Append(stagesRun, "coerce")
  /\ IF coerceSkipped(fns[cur.retval]) \/ numFormals(fns, cur.retval) = 0
     THEN pc' = NextPc("coerce") /\ co' = co
     ELSE pc' = "coerce_loop" /\ co' = CoerceAt(1)
  /\ UNCHANGED <<fns, defaultsCache, promotionsCache, iteratorLeaderMap,
                 iteratorFollowerMap, cur, callActuals, ciActuals,
                 ciActualNames, stmtsBefore, removals, served, calls>>

SkipCoerce ==
  /\ pc = "coerce"
  /\ ~coerceGuard(Len(ciActuals))
  /\ pc' = NextPc("coerce")
  /\ UNCHANGED <<fns, defaultsCache, promotionsCache, iteratorLeaderMap,
                 iteratorFollowerMap, cur, callActuals, ciActuals,
                 ciActualNames, stmtsBefore, co, removals, stagesRun, served,
                 calls>>

\* what canCoerce / isDispatchParent may answer
CanCoerceAnswers(actualSym, formal, fnName) ==
  IF cur.free THEN BOOLEAN
  ELSE {canCoerce(actualSym.type, actualSym.imm, formal.type, fnName)}

DispatchParentAnswers(actualSym, formal) ==
  IF cur.free THEN BOOLEAN
  ELSE {isDispatchParent(actualSym.type, formal.type)}

\* the loop's locals and position after a body that left checkAgain = c2
CoAfterBody(c2, sym) ==
  [co EXCEPT !.actualSym = sym, !.c2 = c2, !.iters = @ + 1,
             !.steps = IF sym = co.actualSym THEN @ ELSE @ + 1,
             !.checksLeft = IF c2 THEN @ - 1 ELSE @]

PcAfterBody(c2) ==
  IF loopContinues(c2, co.checksLeft) THEN "coerce_loop" ELSE "coerce_end"

\* one run of the do-while body of coerceActuals, and its exit test
CoerceIter ==
  /\ pc = "coerce_loop"
  /\ LET f      == fns[cur.retval]
         formal == f.formals[co.j]
         sym    == co.actualSym
         op     == CoercionOp(sym.type, formal)
     IN  \E cc \in CanCoerceAnswers(sym, formal, f.name),
            dp \in DispatchParentAnswers(sym, formal) :
           IF ~needToAddCoercion(sym.type, formal, cc, dp)
           THEN /\ co' = CoAfterBody(FALSE, sym)
                /\ pc' = PcAfterBody(FALSE)
                /\ UNCHANGED <<callActuals, stmtsBefore, cur>>
           ELSE IF isStringLiteralToCString(sym, formal)
           THEN /\ callActuals' =
                     [callActuals EXCEPT ![co.j] =
                        [name |-> "",
                         sym  |-> [tag |-> "cstring_literal", idx |-> sym.idx,
                                   type |-> dtStringC, imm |-> TRUE,
                                   flags |-> {}]]]
                /\ co' = CoAfterBody(FALSE, sym)
                /\ pc' = PcAfterBody(FALSE)
                /\ UNCHANGED <<stmtsBefore, cur>>
           ELSE \E rt \in ResultTypes(op, sym.type, formal),
                   target \in CastTargets(op) :
                  LET r == addArgCoercion(formal, callActuals[co.j], sym,
                                          stmtsBefore, rt, target)
                  IN  /\ callActuals' = [callActuals EXCEPT ![co.j] = r.actual]
                      /\ stmtsBefore' = r.stmts
                      /\ co' = CoAfterBody(r.checkAgain, r.actualSym)
                      /\ IF r.error = << >>
                         THEN pc' = PcAfterBody(r.checkAgain) /\ cur' = cur
                         ELSE /\ pc' = "halted"
                              /\ cur' = [cur EXCEPT !.halt  = "USR_STOP",
                                                    !.error = r.error]
  /\ UNCHANGED <<fns, defaultsCache, promotionsCache, iteratorLeaderMap,
                 iteratorFollowerMap, ciActuals, ciActualNames, removals,
                 stagesRun, served, calls>>

\* after the loop: INT_ASSERT(c2 == false), then the next formal
CoerceEnd ==
  /\ pc = "coerce_end"
  /\ IF co.c2
     THEN /\ pc' = "halted"
          /\ cur' = [cur EXCEPT !.halt = "INT_ASSERT"]
          /\ co' = co
     ELSE /\ cur' = cur
          /\ IF co.j < numFormals(fns, cur.retval)
             THEN pc' = "coerce_loop" /\ co' = CoerceAt(co.j + 1)
             ELSE pc' = NextPc("coerce") /\ co' = IdleCo
  /\ UNCHANGED <<fns, defaultsCache, promotionsCache, iteratorLeaderMap,
                 iteratorFollowerMap, callActuals, ciActuals, ciActualNames,
                 stmtsBefore, removals, stagesRun, served, calls>>

promotionActualsFromCall ==
  [j \in DOMAIN callActuals |-> callActuals[j].sym]

\* the symbols the promotion stage looks at: info.actuals
promotionActuals == ciActuals

\* stage 4 runs: retval = promotionWrap(retval, info, fastFollowerChecks).
\* fastFollowerChecks, an argument of wrapAndCleanUpActuals that only this
\* stage reads, is drawn here.
PromotionWrap ==
  /\ pc = "promote"
  /\ isPromotionRequired(fns[cur.retval], promotionActuals)
  /\ \E fastFollowerChecks \in BOOLEAN :
     \E r \in {promotionWrap(fns, promotionsCache, iteratorLeaderMap,
                             iteratorFollowerMap, cur.retval,
                             promotionActuals, fastFollowerChecks)} :
         /\ fns' = r.fns
         /\ promotionsCache' = r.cache
         /\ iteratorLeaderMap' = r.leaders
         /\ iteratorFollowerMap' = r.followers
         /\ cur' = [cur EXCEPT
                      !.retval = r.retval,
                      !.ffc = fastFollowerChecks,
                      !.pSeen = Seen("promotion", cur.retval, r.key),
                      !.pBuilt = Len(r.fns) - Len(fns),
                      !.halt = IF r.halt THEN "INT_ASSERT" ELSE @]
         /\ served' = Serve("promotion", cur.retval, r.key, r.retval)
         /\ pc' = IF r.halt THEN "halted" ELSE NextPc("promote")
  /\ stagesRun' = Append(stagesRun, "promote")
  /\ UNCHANGED <<defaultsCache, callActuals, ciActuals, ciActualNames,
                 stmtsBefore, co, removals, calls>>

SkipPromotion ==
  /\ pc = "promote"
  /\ ~isPromotionRequired(fns[cur.retval], promotionActuals)
  /\ pc' = NextPc("promote")
  /\ UNCHANGED <<fns, defaultsCache, promotionsCache, iteratorLeaderMap,
                 iteratorFollowerMap, cur, callActuals, ciActuals,
                 ciActualNames, stmtsBefore, co, removals, stagesRun, served,
                 calls>>

Stages ==
  \/ WrapDefaults
  \/ SkipDefaults
  \/ ReorderActuals
  \/ SkipReorder
  \/ CoerceActuals
  \/ SkipCoerce
  \/ CoerceIter
  \/ CoerceEnd
  \/ PromotionWrap
  \/ SkipPromotion

Next == StartCall \/ Stages

Spec == Init /\ [][Next]_vars

----------------------------------------------------------------------------
(* One call site with a single, deeply layered actual; canCoerce and       *)
(* isDispatchParent answer by the types or, when cur.free, anything.       *)

InitChain ==
  /\ fns = Program
  /\ defaultsCache = {}
  /\ promotionsCache = {}
  /\ iteratorLeaderMap = {}
  /\ iteratorFollowerMap = {}
  /\ served = {}
  /\ calls = 1
  /\ stmtsBefore = << >>
  /\ co = IdleCo
  /\ removals = 0
  /\ stagesRun = << >>
  /\ pc = "default"
  /\ \E fn \in 1..Len(Program), free \in BOOLEAN :
       \E m \in {x \in Mappings(Program[fn]) : Len(x) = 1} :
         \E actuals \in ActualVectors(Program[fn], m, MaxWrap, 1) :
           /\ cur = SiteCur(fn, m, free)
           /\ callActuals = SiteActuals(fn, m, actuals)
           /\ ciActuals = actuals
           /\ ciActualNames = SiteCur(fn, m, free).names

NextChain ==
  \/ WrapDefaults
  \/ SkipDefaults
  \/ SkipReorder
  \/ CoerceActuals
  \/ CoerceIter
  \/ CoerceEnd
  \/ PromotionWrap
  \/ SkipPromotion

SpecChain == InitChain /\ [][NextChain]_vars

----------------------------------------------------------------------------
(* One call site of one callee, the callee drawn from families that vary   *)
(* the intents, defaults and flags of its formals and the flags of the     *)
(* procedure, default constructors among them.                             *)

Intents ==
  {"blank", "const", "in", "out", "inout", "ref", "const_ref", "param",
   "type"}

\* g(r: int, o: int = ...) with the intents of both formals varied
GIntent(i1, written, i2) ==
  Fn("g",
     << [Formal("r", dtInt, i1, "none") EXCEPT
           !.flags = IF written THEN {"wrap_written_formal"} ELSE {}],
        Formal("o", dtInt, i2, "expr") >>,
     "value", FALSE, {})

\* g(r: int, o: int = ...) with the default of o varied
GDefault(i2, dflt, typeExpr, typeVar) ==
  Fn("g",
     << Formal("r", dtInt, "blank", "none"),
        [Formal("o", dtInt, i2, dflt) EXCEPT
           !.typeExpr = typeExpr,
           !.flags = IF typeVar THEN {"type_variable"} ELSE {}] >>,
     "value", FALSE, {})

\* g(r: int, o: int = ...) with one flag of the procedure varied
GFlag(flags, isVoid) ==
  Fn("g",
     << Formal("r", dtInt, "blank", "none"),
        Formal("o", dtInt, "blank", "expr") >>,
     "value", isVoid, flags)

\* the default constructor of R, a class or record with fields D and A
ConstructR(name, thisRef, isRecord, dFlags, dField, dDflt, memeFlags) ==
  Fn(name,
     << [Formal("D", dtInt, "blank", dDflt) EXCEPT
           !.flags = dFlags, !.field = dField],
        [Formal("A", dtArray, "blank", "typedefault") EXCEPT
           !.typeExpr = TRUE, !.field = TRUE] >>
       \o (IF thisRef THEN << >>
           ELSE << [Formal("meme", dtParent, "blank", "expr") EXCEPT
                      !.flags = memeFlags] >>),
     "value", FALSE,
     {"default_constructor", "constructor", "compiler_generated"}
       \cup (IF thisRef THEN {"this_is_ref"} ELSE {})
       \cup (IF isRecord THEN {"this_is_record"} ELSE {}))

\* k(t: tuple) with the intent of its formal varied
KTuple(intent) ==
  Fn("k", << Formal("t", dtTuple, intent, "none") >>, "value", FALSE, {})

\* q(x: real, y: real): both positions take a coercion
QReal ==
  Fn("q", << Formal("x", dtReal, "blank", "none"),
             Formal("y", dtReal, "blank", "none") >>, "value", FALSE, {})

\* the flags of a procedure that the wrappers' construction looks at
ProcFlags ==
  {"init_copy_fn", "auto_copy_fn", "auto_destroy_fn", "donor_fn",
   "no_parens", "constructor", "field_accessor", "ref_to_const", "method",
   "method_primary", "assignop", "default_constructor", "last_resort",
   "throws", "compiler_generated", "iterator_fn"}

WrapCallees ==
  {GIntent(i1, w, i2) : i1 \in Intents, w \in BOOLEAN, i2 \in Intents}
    \cup {GDefault(i2, d, te, tv) :
            i2 \in Intents, d \in {"expr", "typedefault"},
            te \in BOOLEAN, tv \in BOOLEAN}
    \cup {GFlag(fl, v) :
            fl \in {{}} \cup {{x} : x \in ProcFlags},
            v \in BOOLEAN}
    \cup {ConstructR(n, tr, rec, dfl, dfi, dd, mf) :
            n \in {"_construct_R", "_construct__tuple"},
            tr \in BOOLEAN, rec \in BOOLEAN,
            dfl \in {{}, {"type_variable"}, {"in_param_map"}},
            dfi \in BOOLEAN, dd \in {"expr", "typedefault"},
            mf \in {{"is_meme"}, {"is_meme", "in_param_map"}}}
    \cup {KTuple(i) : i \in {"blank", "in", "ref"}}
    \cup {QReal}
    \cup Range(Program)

InitWrap ==
  /\ defaultsCache = {}
  /\ promotionsCache = {}
  /\ iteratorLeaderMap = {}
  /\ iteratorFollowerMap = {}
  /\ served = {}
  /\ calls = 1
  /\ stmtsBefore = << >>
  /\ co = IdleCo
  /\ removals = 0
  /\ stagesRun = << >>
  /\ pc = "default"
  /\ \E f \in WrapCallees :
       \E m \in Mappings(f) :
         \E actuals \in ActualVectors(f, m, WrapFor(Len(m)), 1) :
           /\ fns = <<f>>
           /\ cur = SiteCurOf(f, 1, m, FALSE)
           /\ callActuals = SiteActualsOf(f, m, actuals)
           /\ ciActuals = actuals
           /\ ciActualNames = SiteCurOf(f, 1, m, FALSE).names

NextWrap == Stages

SpecWrap == InitWrap /\ [][NextWrap]_vars

----------------------------------------------------------------------------
(* Properties of wrapAndCleanUpActuals.                                    *)

StageRank(stage) ==
  CASE stage = "default" -> 1
    [] stage = "reorder" -> 2
    [] stage = "coerce"  -> 3
    [] stage = "promote" -> 4

InsideCoerce == {"coerce_loop", "coerce_end", "halted"}

\* how far wrapAndCleanUpActuals has got: the stage pc stands before or in
PcRank(p) ==
  CASE p = "idle"        -> 0
    [] p = "default"     -> 1
    [] p = "reorder"     -> 2
    [] p = "coerce"      -> 3
    [] p \in InsideCoerce -> 3
    [] p = "promote"     -> 4
    [] p = "done"        -> 5

\* the formal of the original callee that formal i of callee fn stands for
FormalSrc(fn, i) ==
  IF fns[fn].kind = "user" THEN i ELSE fns[fn].formals[i].src

Increasing(m) == \A i, k \in DOMAIN m : i < k => m[i] < m[k]

\* C1: the stages run in the fixed order default, reorder, coerce,
\* promotion: the stages that have run appear in strictly increasing order,
\* each stage that has run is finished before the position moves to a later
\* stage, and only the coercion stage can be the one in progress.
C1_StageOrder ==
  /\ \A i, k \in DOMAIN stagesRun :
       i < k => StageRank(stagesRun[i]) < StageRank(stagesRun[k])
  /\ \A i \in DOMAIN stagesRun :
       \/ StageRank(stagesRun[i]) < PcRank(pc)
       \/ /\ pc \in InsideCoerce
          /\ i = Len(stagesRun)
          /\ stagesRun[i] = "coerce"
  /\ pc \in InsideCoerce =>
       /\ stagesRun # << >>
       /\ stagesRun[Len(stagesRun)] = "coerce"

C1_Witness ==
  /\ pc = "done"
  /\ stagesRun = <<"default", "reorder", "coerce", "promote">>

\* C2: once the default stage is over (it ran or was skipped), the callee
\* has exactly as many formals as the call has actuals, whether it is the
\* original callee, a fresh or cached default wrapper, or a promotion
\* wrapper.
C2_FormalCountIsActualCount ==
  PcRank(pc) > 1 =>
    /\ numFormals(fns, cur.retval) = cur.numActuals
    /\ numFormals(fns, cur.retval) = Len(ciActuals)
    /\ numFormals(fns, cur.retval) = Len(callActuals)

C2_Witness ==
  /\ pc = "done"
  /\ fns[cur.retval].kind = "promotion_wrapper"
  /\ fns[cur.effective].kind = "default_wrapper"
  /\ cur.dSeen
  /\ cur.numActuals = 2

\* C3: after the default and reorder stages, for every position i the
\* actual at position i of the call is the one resolution mapped to formal
\* i of the callee, and the call-info actuals and actual names carry the
\* same permutation as the call's expressions.
C3_ActualsInFormalOrder ==
  pc = "coerce" =>
    \A i \in DOMAIN callActuals :
      LET k == callActuals[i].sym.idx
      IN  /\ FormalSrc(cur.retval, i) = cur.map[k]
          /\ ciActuals[i] = callActuals[i].sym
          /\ ciActualNames[i] = cur.names[k]
          /\ callActuals[i].name = cur.names[k]

C3_Witness ==
  /\ pc = "coerce"
  /\ cur.map = <<3, 1, 2>>
  /\ removals = 3
  /\ "reorder" \in Range(stagesRun)

\* C4: for one callee and one kind of wrapper, two call sites are served
\* the same wrapper exactly when their keys (the set of defaulted formals,
\* or the promotion key) are equal, and a call whose key was seen before
\* builds no function.
C4_CacheSharing ==
  /\ \A x, y \in served :
       (x.kind = y.kind /\ x.fn = y.fn) =>
         ((x.wrapper = y.wrapper) <=> (x.key = y.key))
  /\ cur.dSeen => cur.dBuilt = 0
  /\ cur.pSeen => cur.pBuilt = 0

C4_Witness ==
  /\ pc = "done"
  /\ cur.dSeen
  /\ cur.pSeen

\* C5: when promotion is allowed for the callee that reaches the promotion
\* stage, no actual of the call promotes against the corresponding formal
\* of the returned callee; and where an actual promoted, the returned
\* callee is a promotion wrapper of that callee whose formal has the type
\* of the actual, its reference type for an array.
C5_NoActualPromotesAfterwards ==
  (pc = "done" /\ ~promotionSkipped(fns[cur.effective])) =>
    LET f == fns[cur.effective]
        r == fns[cur.retval]
    IN  /\ \A j \in DOMAIN r.formals :
             ~promotes(ciActuals[j], r.formals[j], r.name)
        /\ \A j \in DOMAIN f.formals :
             promotes(ciActuals[j], f.formals[j], f.name) =>
               /\ r.kind = "promotion_wrapper"
               /\ r.of = cur.effective
               /\ r.formals[j].type = promotionActualType(ciActuals[j].type)

C5_Witness ==
  /\ pc = "done"
  /\ fns[cur.retval].kind = "promotion_wrapper"
  /\ \E j \in DOMAIN ciActuals :
       /\ ciActuals[j].type = dtArray
       /\ fns[cur.retval].formals[j].type = <<"ref">> \o dtArray
  /\ \E j \in DOMAIN ciActuals :
       fns[cur.retval].formals[j].type = fns[cur.effective].formals[j].type

\* the coercion the loop body inserted last asks for a re-check
LastStepRechecks ==
  /\ stmtsBefore # << >>
  /\ stmtsBefore[Len(stmtsBefore)].rhs \in {"readFE", "readFF", "deref"}

\* the inserted coercions that asked for a re-check
RecheckSteps ==
  {k \in DOMAIN stmtsBefore :
     stmtsBefore[k].rhs \in {"readFE", "readFF", "deref"}}

\* the actual at the loop's position needs no coercion, whatever canCoerce
\* and isDispatchParent may answer for it
NeedsNoCoercion ==
  LET f      == fns[cur.retval]
      formal == f.formals[co.j]
  IN  \A cc \in CanCoerceAnswers(co.actualSym, formal, f.name),
         dp \in DispatchParentAnswers(co.actualSym, formal) :
        ~needToAddCoercion(co.actualSym.type, formal, cc, dp)

\* C6: for each actual position the body of the re-check loop runs at most
\* six times, so at most six coercion steps are inserted for it, whatever
\* canCoerce, isDispatchParent and the cast resolution answer.
C6_AtMostSixChecks ==
  /\ co.iters <= ChecksLeftInit
  /\ co.steps <= co.iters
  /\ pc = "coerce_loop" => co.iters < ChecksLeftInit

C6_Witness ==
  /\ pc = "coerce_end"
  /\ cur.free
  /\ co.iters = ChecksLeftInit
  /\ co.steps = ChecksLeftInit

\* C7 as stated: the INT_ASSERT fails only for an actual that still needs a
\* coercion after six steps; a chain whose sixth step is a readFE, readFF
\* or dereference that yields the formal's type does not fail.
C7_HaltOnlyWhenStillNeeded ==
  cur.halt = "INT_ASSERT" => ~NeedsNoCoercion

\* C7, amended: the INT_ASSERT after the loop fails exactly when the sixth
\* run of the loop body for an actual inserts a readFE, readFF or
\* dereference step, whether or not the temporary then has the formal's
\* type; a chain of at most five such steps, or whose sixth step is a
\* general cast, passes the assertion, and the coercion of a call's only
\* actual completes only after fewer than six such steps.
C7_HaltAtSixthRecheck ==
  /\ pc = "coerce_end" =>
       (co.c2 <=> (/\ co.iters = ChecksLeftInit
                   /\ co.steps = ChecksLeftInit
                   /\ LastStepRechecks))
  /\ cur.halt = "INT_ASSERT" =>
       /\ pc = "halted"
       /\ co.c2
       /\ co.iters = ChecksLeftInit
       /\ LastStepRechecks
  /\ (PcRank(pc) > 3 /\ cur.numActuals = 1) =>
       Cardinality(RecheckSteps) < ChecksLeftInit

C7_Witness ==
  /\ cur.halt = "INT_ASSERT"
  /\ ~cur.free
  /\ co.steps = ChecksLeftInit
  /\ co.actualSym.type = fns[cur.retval].formals[co.j].type

\* C8: the default stage runs exactly when the call has fewer actuals than
\* the callee has formals, the reorder stage exactly when the call has more
\* than one actual, and the coercion stage exactly when it has at least
\* one; a call with no actuals runs neither reorder nor coercion.
C8_StageGuards ==
  /\ PcRank(pc) > 1 =>
       (("default" \in Range(stagesRun))
          <=> cur.numActuals < numFormals(fns, cur.fn))
  /\ PcRank(pc) > 2 =>
       (("reorder" \in Range(stagesRun)) <=> cur.numActuals > 1)
  /\ PcRank(pc) > 3 =>
       (("coerce" \in Range(stagesRun)) <=> cur.numActuals > 0)
  /\ cur.numActuals = 0 =>
       /\ "reorder" \notin Range(stagesRun)
       /\ "coerce" \notin Range(stagesRun)

C8_Witness ==
  /\ pc = "done"
  /\ cur.numActuals = 0
  /\ stagesRun = <<"default">>

\* C9: when the actuals already stand in formal order the reorder stage
\* removes no actual and leaves the call's expressions, the call-info
\* actuals and the actual names as they were.
C9_InOrderIsNoOp ==
  (/\ PcRank(pc) >= 3
   /\ "reorder" \in Range(stagesRun)
   /\ Increasing(cur.map)) =>
    /\ removals = 0
    /\ ciActualNames = cur.names
    /\ \A i \in DOMAIN ciActuals :
         ciActuals[i].tag = "actual" /\ ciActuals[i].idx = i
    /\ pc = "coerce" =>
         \A i \in DOMAIN callActuals :
           /\ callActuals[i].sym = ciActuals[i]
           /\ callActuals[i].name = cur.names[i]

C9_Witness ==
  /\ pc = "coerce"
  /\ "reorder" \in Range(stagesRun)
  /\ "default" \in Range(stagesRun)
  /\ cur.map = <<1, 3>>
  /\ removals = 0

\* C10: for a callee that returns a param the coercion stage changes
\* nothing: no statement is inserted before the call, no actual is
\* replaced (not even a string literal passed to a c_string formal), and
\* the re-check loop is never entered.
C10_ParamCalleeUntouched ==
  (PcRank(pc) >= 3 /\ fns[cur.effective].retTag = "param") =>
    /\ stmtsBefore = << >>
    /\ pc \notin InsideCoerce
    /\ co = IdleCo
    /\ \A i \in DOMAIN callActuals :
         /\ callActuals[i].sym = ciActuals[i]
         /\ callActuals[i].sym.tag = "actual"
         /\ callActuals[i].name = ciActualNames[i]

C10_Witness ==
  /\ pc = "promote"
  /\ fns[cur.effective].retTag = "param"
  /\ "coerce" \in Range(stagesRun)
  /\ \E i \in DOMAIN ciActuals :
       isStringLiteralToCString(ciActuals[i], fns[cur.retval].formals[i])

\* the callee is the assignment operator or a type constructor
IsAssignOrTypeConstructor(fn) ==
  fns[fn].name = "=" \/ "type_constructor" \in fns[fn].flags

\* C11: for a callee that is '=' or a type constructor the promotion stage
\* does nothing: the callee is returned as it is, no procedure is built, and
\* the promotion cache and the iterator side tables stay as they were, even
\* when an actual would promote against its formal.
C11_NoPromotionForAssignOrTypeConstructor ==
  [][(pc = "promote" /\ IsAssignOrTypeConstructor(cur.retval)) =>
       /\ pc' = "done"
       /\ cur'.retval = cur.retval
       /\ "promote" \notin Range(stagesRun')
       /\ UNCHANGED <<fns, promotionsCache, iteratorLeaderMap,
                      iteratorFollowerMap>>]_vars

C11_Witness ==
  /\ pc = "done"
  /\ IsAssignOrTypeConstructor(cur.retval)
  /\ fns[cur.retval].kind = "user"
  /\ \E j \in DOMAIN ciActuals :
       promotes(ciActuals[j], fns[cur.retval].formals[j],
                fns[cur.retval].name)

\* the wrappers this layer returns to its caller
Wrappers ==
  {i \in DOMAIN fns : fns[i].kind \in {"default_wrapper", "promotion_wrapper"}}

\* wrapper i wraps a default constructor whose receiver is not a reference
WrapsPlainDefaultConstructor(i) ==
  /\ fns[i].kind = "default_wrapper"
  /\ "default_constructor" \in fns[fns[i].of].flags
  /\ "this_is_ref" \notin fns[fns[i].of].flags

\* C12 as stated: every wrapper carries the flags wrapper, invisible and
\* compiler_generated.
C12_EveryWrapperCompilerGenerated ==
  \A i \in Wrappers :
    {"wrapper", "invisible_fn", "compiler_generated"} \subseteq fns[i].flags

\* C12, amended: every wrapper carries the flags wrapper and invisible, and
\* it carries compiler_generated unless it is the default-value wrapper of
\* a default constructor whose receiver is not a reference type, which
\* never carries it.
C12_WrapperFlags ==
  \A i \in Wrappers :
    /\ {"wrapper", "invisible_fn"} \subseteq fns[i].flags
    /\ ("compiler_generated" \in fns[i].flags)
         <=> ~WrapsPlainDefaultConstructor(i)

C12_Witness ==
  /\ pc = "done"
  /\ WrapsPlainDefaultConstructor(cur.effective)
  /\ "compiler_generated" \notin fns[cur.effective].flags
  /\ fns[cur.retval].kind = "promotion_wrapper"
  /\ "compiler_generated" \in fns[cur.retval].flags

\* the flags a wrapper is said to inherit from the callee it wraps
InheritedFlags ==
  {"init_copy_fn", "auto_copy_fn", "auto_destroy_fn", "donor_fn",
   "no_parens", "constructor", "field_accessor", "ref_to_const", "method",
   "method_primary", "assignop", "default_constructor", "last_resort",
   "throws"}

\* C13 as stated: a wrapper carries each inherited flag exactly when the
\* callee it wraps carries it, and was_compiler_generated exactly when the
\* callee carries compiler_generated.
C13_FlagsForwardedExactly ==
  \A i \in Wrappers :
    /\ \A x \in InheritedFlags :
         (x \in fns[i].flags) <=> (x \in fns[fns[i].of].flags)
    /\ ("was_compiler_generated" \in fns[i].flags)
         <=> ("compiler_generated" \in fns[fns[i].of].flags)

\* C13, amended: a wrapper carries each inherited flag exactly when the
\* callee it wraps carries it, except that a promotion wrapper never
\* carries default_constructor; it carries was_compiler_generated exactly
\* when the callee it wraps carries compiler_generated.
C13_FlagsForwarded ==
  \A i \in Wrappers :
    /\ \A x \in InheritedFlags :
         (x \in fns[i].flags)
           <=> /\ x \in fns[fns[i].of].flags
               /\ ~(x = "default_constructor"
                      /\ fns[i].kind = "promotion_wrapper")
    /\ ("was_compiler_generated" \in fns[i].flags)
         <=> ("compiler_generated" \in fns[fns[i].of].flags)

C13_Witness ==
  /\ pc = "done"
  /\ fns[cur.retval].kind = "promotion_wrapper"
  /\ "default_constructor" \in fns[cur.effective].flags
  /\ "default_constructor" \notin fns[cur.retval].flags
  /\ "constructor" \in fns[cur.retval].flags
  /\ "was_compiler_generated" \in fns[cur.retval].flags

\* C14: a formal copied into a wrapper carries the written marker exactly
\* when its source has intent out or inout or carries the marker already,
\* keeps the source's intent when that is ref or const_ref, and has blank
\* intent for every other source intent.
C14_CopiedFormal ==
  \A i \in Wrappers :
    \A j \in DOMAIN fns[i].formals :
      LET c == fns[i].formals[j]
          o == fns[fns[i].of].formals[c.src]
      IN  /\ ("wrap_written_formal" \in c.flags)
               <=> \/ o.intent \in {"out", "inout"}
                   \/ "wrap_written_formal" \in o.flags
          /\ c.intent = IF o.intent \in {"ref", "const_ref"} THEN o.intent
                        ELSE "blank"
          /\ c.name = o.name

C14_Witness ==
  /\ pc = "done"
  /\ fns[cur.retval].kind = "default_wrapper"
  /\ fns[cur.fn].formals[1].intent = "inout"
  /\ fns[cur.retval].formals[1].intent = "blank"
  /\ "wrap_written_formal" \in fns[cur.retval].formals[1].flags

DefaultWrappers == {i \in DOMAIN fns : fns[i].kind = "default_wrapper"}

EmittedKinds ==
  {"default_wrapper", "promotion_wrapper", "leader", "follower", "probe"}

\* C16: every procedure this layer has built (default-value wrapper,
\* promotion wrapper, leader, follower, fast-follower probe) is defined in
\* a block of the program, and every wrapper stored in the defaults or the
\* promotions cache is such a procedure.
C16_EmittedProceduresInserted ==
  /\ \A i \in DOMAIN fns :
       fns[i].kind \in EmittedKinds => fns[i].inTree
  /\ \A e \in defaultsCache :
       /\ e.wrapper \in DOMAIN fns
       /\ fns[e.wrapper].kind = "default_wrapper"
       /\ fns[e.wrapper].inTree
  /\ \A e \in promotionsCache :
       /\ e.wrapper \in DOMAIN fns
       /\ fns[e.wrapper].kind = "promotion_wrapper"
       /\ fns[e.wrapper].inTree

C16_Witness ==
  /\ pc = "done"
  /\ defaultsCache # {}
  /\ promotionsCache # {}
  /\ \A k \in EmittedKinds : \E i \in DOMAIN fns : fns[i].kind = k

\* the formals the call site that wrapper i was built for left out
OmittedBy(i) ==
  Range((CHOOSE e \in served : e.kind = "default" /\ e.wrapper = i).key)

\* the position in body b of the call to the wrapped callee
CallIndex(b) ==
  CHOOSE k \in DOMAIN b :
    \/ b[k].op = "call"
    \/ b[k].op = "move" /\ b[k].src # << >> /\ b[k].src[1] = "call"

\* formal p of callee f gets a temporary holding its default
IsDefaulted(f, p, omitted) ==
  /\ p \in omitted
  /\ "in_param_map" \notin f.formals[p].flags
  /\ "is_meme" \notin f.formals[p].flags

\* C17: a default-value wrapper has one formal per supplied formal of the
\* callee, in the callee's order, and its call to the callee has one
\* argument per formal of the callee, in the callee's order: the wrapper's
\* formal (or a temporary made from it) for a supplied formal, else the
\* param value for a param-instantiated one, else the receiver for is_meme,
\* else the temporary holding the default.
C17_WrapperFormalsAndCallArgs ==
  \A i \in DefaultWrappers :
    LET w        == fns[i]
        f        == fns[w.of]
        omitted  == OmittedBy(i)
        supplied == IncSeq(DOMAIN f.formals \ omitted)
        args     == w.body[CallIndex(w.body)].args
    IN  /\ Len(w.formals) = Len(supplied)
        /\ \A k \in DOMAIN w.formals :
             /\ w.formals[k].src = supplied[k]
             /\ w.formals[k].name = f.formals[supplied[k]].name
        /\ Len(args) = Len(f.formals)
        /\ \A p \in DOMAIN f.formals :
             LET formal == f.formals[p]
             IN  IF p \notin omitted
                 THEN /\ args[p][1] \in {"formal", "wrap_ref_arg",
                                         "wrap_type_arg", "wrap_arg"}
                      /\ args[p][2] = formal.name
                 ELSE IF "in_param_map" \in formal.flags
                 THEN args[p] = <<"param", formal.name>>
                 ELSE IF "is_meme" \in formal.flags
                 THEN args[p] = <<"this">>
                 ELSE args[p] = <<"default_arg", formal.name>>

C17_Witness ==
  /\ pc = "done"
  /\ cur.effective \in DefaultWrappers
  /\ cur.dBuilt = 1
  /\ \E a \in {"wrap_arg", "formal"} :
       fns[cur.effective].body[CallIndex(fns[cur.effective].body)].args
         = << <<"default_arg", "D">>, <<a, "A">>, <<"param", "meme">> >>

\* the move that populates the temporary of formal name in body b
PopulateOf(b, name) ==
  b[CHOOSE k \in DOMAIN b :
      b[k].op = "move" /\ b[k].sym = <<"default_arg", name>>]

FromTypeDefault(src) == src[Len(src)] \in {"type", "type_expr"}

FromDefaultExpr(src) == src[Len(src)] = "default_expr"

\* C18 as stated: whatever the formal's intent, the temporary of a
\* defaulted formal is populated from the default expression when there is
\* one that is not the type-default sentinel, and from the type's default
\* exactly when the default expression is absent or is the sentinel.
C18_DefaultExprForEveryIntent ==
  \A i \in DefaultWrappers :
    LET f == fns[fns[i].of]
    IN  \A p \in DOMAIN f.formals :
          IsDefaulted(f, p, OmittedBy(i)) =>
            LET src == PopulateOf(fns[i].body, f.formals[p].name).src
            IN  /\ f.formals[p].dflt = "expr" => FromDefaultExpr(src)
                /\ FromTypeDefault(src)
                     <=> f.formals[p].dflt \in {"none", "typedefault"}

\* C18, amended: the temporary of a defaulted formal is populated from the
\* type's default value exactly when the formal's intent is out or its
\* default expression is absent or is the type-default sentinel, and from
\* the default expression in every other case.
C18_DefaultExprUnlessOut ==
  \A i \in DefaultWrappers :
    LET f == fns[fns[i].of]
    IN  \A p \in DOMAIN f.formals :
          IsDefaulted(f, p, OmittedBy(i)) =>
            LET src == PopulateOf(fns[i].body, f.formals[p].name).src
            IN  /\ FromTypeDefault(src)
                     <=> \/ f.formals[p].intent = "out"
                         \/ f.formals[p].dflt \in {"none", "typedefault"}
                /\ FromDefaultExpr(src) <=> ~FromTypeDefault(src)

C18_Witness ==
  /\ pc = "done"
  /\ cur.effective \in DefaultWrappers
  /\ fns[cur.fn].name = "g"
  /\ fns[cur.fn].formals[2].intent = "out"
  /\ fns[cur.fn].formals[2].dflt = "expr"
  /\ PopulateOf(fns[cur.effective].body, "o").src = <<"init", "type">>

\* the positions in body b of the statements that make formal name's
\* temporary
MaterializeOf(b, name) ==
  {k \in DOMAIN b :
     b[k].op \in {"def", "move"} /\ b[k].sym = <<"default_arg", name>>}

\* C19: in the default-value wrapper of a default constructor (receiver not
\* a reference, not the tuple constructor), every defaulted formal that is
\* not a type variable and names a field of the receiver's own type has a
\* set_member(this, field, tmp) right after the temporary is populated and
\* before the call to the constructor, and that set_member precedes every
\* statement that makes the temporary of a later defaulted formal.
C19_SetMemberInFormalOrder ==
  \A i \in DefaultWrappers :
    LET f == fns[fns[i].of]
        b == fns[i].body
        o == OmittedBy(i)
    IN  (/\ "default_constructor" \in f.flags
         /\ "this_is_ref" \notin f.flags
         /\ f.name # "_construct__tuple") =>
          \A p \in DOMAIN f.formals :
            (/\ IsDefaulted(f, p, o)
             /\ "type_variable" \notin f.formals[p].flags
             /\ f.formals[p].field) =>
              \E k \in DOMAIN b :
                /\ b[k].op = "set_member"
                /\ b[k].sym = <<f.formals[p].name>>
                /\ b[k].src = <<"default_arg", f.formals[p].name>>
                /\ k > 1
                /\ b[k - 1] = PopulateOf(b, f.formals[p].name)
                /\ k < CallIndex(b)
                /\ \A q \in DOMAIN f.formals :
                     (q > p /\ IsDefaulted(f, q, o)) =>
                       \A m \in MaterializeOf(b, f.formals[q].name) : k < m

C19_Witness ==
  /\ pc = "done"
  /\ cur.effective \in DefaultWrappers
  /\ fns[cur.fn].name = "_construct_R"
  /\ "this_is_ref" \notin fns[cur.fn].flags
  /\ \E k \in DOMAIN fns[cur.effective].body :
       /\ fns[cur.effective].body[k].op = "set_member"
       /\ fns[cur.effective].body[k].sym = <<"D">>
       /\ fns[cur.effective].body[k].src = <<"default_arg", "D">>
       /\ MaterializeOf(fns[cur.effective].body, "A") # {}
       /\ \A m \in MaterializeOf(fns[cur.effective].body, "A") : k < m

\* the formal the coercion loop stands at
CoFormal == fns[cur.retval].formals[co.j]

\* symbol sym, passed to the loop's formal, needs a coercion: its type
\* differs from the formal's, it is not a reference to the formal's type
\* passed by a reference intent, and it coerces or is a dispatch child
NeedsCoercion(sym) ==
  /\ sym.type # CoFormal.type
  /\ ~(/\ sym.type = <<"ref">> \o CoFormal.type
       /\ getIntent(CoFormal) \in {"ref", "const_ref", "ref_maybe_const"})
  /\ \/ canCoerce(sym.type, sym.imm, CoFormal.type, fns[cur.retval].name)
     \/ isDispatchParent(sym.type, CoFormal.type)

\* the actual expression of the call at the loop's position
CoActual == callActuals[co.j].sym

\* C20: a run of the loop body replaces the actual exactly when the equal
\* types test, then the reference-to-formal-type test, then canCoerce or
\* isDispatchParent say a coercion is needed; and when the loop leaves a
\* position without a pending re-check, the actual then in the call needs
\* no coercion by the same decision.
C20_CoercionDecision ==
  [][(pc = "coerce_loop" /\ ~cur.free) =>
       /\ (CoActual' # CoActual) <=> NeedsCoercion(co.actualSym)
       /\ (pc' = "coerce_end" /\ ~co'.c2) => ~NeedsCoercion(CoActual')]_vars

C20_Witness ==
  /\ pc = "coerce_end"
  /\ ~cur.free
  /\ ~co.c2
  /\ co.steps = 0
  /\ CoActual.type = <<"ref">> \o CoFormal.type
  /\ getIntent(CoFormal) = "ref"
  /\ canCoerce(CoActual.type, CoActual.imm, CoFormal.type,
               fns[cur.retval].name)

\* the operation a coercion step is to apply to an actual of type t
StepOp(t) ==
  CASE Head(t) = "sync"   -> "readFE"
    [] Head(t) = "single" -> "readFF"
    [] Head(t) = "ref" /\ ~(t[2] = "tuple" /\ CoFormal.type[1] = "tuple")
                          -> "deref"
    [] OTHER              -> "cast"

\* the loop's actual is an immediate string passed to a C-string formal
LiteralToCString ==
  /\ co.actualSym.imm
  /\ co.actualSym.type = <<"string">>
  /\ CoFormal.type = <<"c_string">>

\* C21: a coercion step applies readFE to a synchronized actual, readFF to
\* a single-assignment one, a dereference to a reference (unless the value
\* types of the actual and of the formal are both tuples) and the cast to
\* the formal's type to any other; the first three ask for a re-check of
\* the same position, the cast does not; an immediate string passed to a
\* C-string formal is swapped in place, with no temporary and no re-check.
C21_CoercionOpPriority ==
  [][(pc = "coerce_loop" /\ CoActual' # CoActual) =>
       /\ co'.j = co.j
       /\ IF LiteralToCString
          THEN /\ stmtsBefore' = stmtsBefore
               /\ CoActual'.tag = "cstring_literal"
               /\ CoActual'.type = <<"c_string">>
               /\ ~co'.c2
               /\ pc' = "coerce_end"
          ELSE /\ Len(stmtsBefore') = Len(stmtsBefore) + 2
               /\ stmtsBefore'[Len(stmtsBefore')].op = "move"
               /\ stmtsBefore'[Len(stmtsBefore')].rhs
                    = StepOp(co.actualSym.type)
               /\ CoActual'.tag = "coerce_tmp"
               /\ co'.c2 <=> StepOp(co.actualSym.type) # "cast"]_vars

C21_Witness ==
  /\ pc = "coerce_end"
  /\ ~co.c2
  /\ Len(stmtsBefore) = 6
  /\ stmtsBefore[2].rhs = "readFE"
  /\ stmtsBefore[4].rhs = "deref"
  /\ stmtsBefore[6].rhs = "cast"
  /\ CoActual.type = <<"real">>

\* the operations of the coercion steps, in the order of their moves
ChainOps ==
  [k \in 1..(Len(stmtsBefore) \div 2) |-> stmtsBefore[2 * k].rhs]

\* the call is h(actual) with an actual of type ref(sync(sync int))
HOfRefSyncSyncInt ==
  /\ ~cur.free
  /\ cur.fn # 0
  /\ fns[cur.fn].name = "h"
  /\ Len(ciActuals) = 1
  /\ ciActuals[1].type = <<"ref", "sync", "sync", "int">>

\* step k's def and move stand, in this order, after those of step k - 1,
\* the move reading the actual (k = 1) or the temporary of step k - 1
StepInPlace(k) ==
  /\ stmtsBefore[2 * k - 1].op = "def"
  /\ stmtsBefore[2 * k - 1].sym = k
  /\ stmtsBefore[2 * k].op = "move"
  /\ stmtsBefore[2 * k].sym = k
  /\ IF k = 1
     THEN stmtsBefore[2 * k].arg = ciActuals[1]
     ELSE /\ stmtsBefore[2 * k].arg.tag = "coerce_tmp"
          /\ stmtsBefore[2 * k].arg.idx = k - 1

\* C22 as stated: for h(x: real) and an actual of type sync sync int held
\* by reference the inserted chain is readFE, readFE, deref, cast, and the
\* call's actual refers to the fourth temporary.
C22_ChainAsStated ==
  (HOfRefSyncSyncInt /\ PcRank(pc) > 3) =>
     /\ ChainOps = <<"readFE", "readFE", "deref", "cast">>
     /\ \A k \in 1..4 : StepInPlace(k)
     /\ callActuals[1].sym.tag = "coerce_tmp"
     /\ callActuals[1].sym.idx = 4

\* C22, amended: each step's def and move stand before the call's statement
\* after the statements of all earlier steps, each move reads the result of
\* the step before it, and the call's actual refers to the temporary of the
\* last step.  For h(x: real) and an actual of type ref(sync(sync int)) the
\* chain starts with a dereference of the actual, then reads each sync layer
\* with readFE, dereferencing after a readFE that yielded a reference, and
\* ends with the cast to real: four to six steps.
C22_ChainInOrder ==
  /\ Len(callActuals) = 1 =>
       /\ Len(stmtsBefore) % 2 = 0
       /\ \A k \in 1..(Len(stmtsBefore) \div 2) : StepInPlace(k)
       /\ stmtsBefore # << >> =>
            /\ callActuals[1].sym.tag = "coerce_tmp"
            /\ callActuals[1].sym.idx = Len(stmtsBefore) \div 2
  /\ (HOfRefSyncSyncInt /\ PcRank(pc) > 3) =>
       ChainOps \in
         {<<"deref", "readFE">> \o d1 \o <<"readFE">> \o d2 \o <<"cast">> :
            d1 \in {<< >>, <<"deref">>}, d2 \in {<< >>, <<"deref">>}}

C22_Witness ==
  /\ HOfRefSyncSyncInt
  /\ pc = "promote"
  /\ ChainOps = <<"deref", "readFE", "readFE", "deref", "cast">>
  /\ callActuals[1].sym.idx = 5
  /\ callActuals[1].sym.type = <<"real">>

\* the positions of the moves among the inserted statements
Moves == {k \in DOMAIN stmtsBefore : stmtsBefore[k].op = "move"}

\* C23: a coercion step whose cast target is not resolved reports "Error
\* resolving a cast from A to F", A the type of the step's actual and F the
\* formal's type, and stops the compilation: the step's move is left
\* unresolved, no later step or position is coerced and no later stage
\* runs; a step whose cast resolved, or that has no cast target, reports
\* nothing.
C23_CastErrorHalts ==
  /\ \A k \in Moves :
       stmtsBefore[k].resolved <=> stmtsBefore[k].target # "unresolved"
  /\ \A k \in Moves :
       ~stmtsBefore[k].resolved =>
         /\ k = Len(stmtsBefore)
         /\ pc = "halted"
         /\ cur.halt = "USR_STOP"
         /\ cur.error = <<"Error resolving a cast from",
                          stmtsBefore[k].arg.type, CoFormal.type>>
         /\ "promote" \notin Range(stagesRun)
         /\ \A i \in DOMAIN callActuals :
              i > co.j => callActuals[i].sym = ciActuals[i]
  /\ cur.halt = "USR_STOP" <=> cur.error # << >>
  /\ cur.error # << >> =>
       /\ stmtsBefore # << >>
       /\ ~stmtsBefore[Len(stmtsBefore)].resolved

C23_Witness ==
  /\ pc = "halted"
  /\ cur.halt = "USR_STOP"
  /\ cur.error = <<"Error resolving a cast from", <<"int">>, <<"real">> >>
  /\ co.j = 1
  /\ Len(callActuals) = 2
  /\ Len(stmtsBefore) = 2
  /\ callActuals[2].sym.type = <<"int">>

\* the promotion wrappers built so far
PromotionWrappers ==
  {w \in DOMAIN fns : fns[w].kind = "promotion_wrapper"}

LeadersOf(w)   == {e[2] : e \in {x \in iteratorLeaderMap : x[1] = w}}
FollowersOf(w) == {e[2] : e \in {x \in iteratorFollowerMap : x[1] = w}}

\* l is a leader of wrapper w: w's formals and a param formal tag, with
\* where clause tag == leader sentinel
IsLeaderOf(l, w) ==
  /\ fns[l].kind = "leader"
  /\ Len(fns[l].formals) = Len(fns[w].formals) + 1
  /\ SubSeq(fns[l].formals, 1, Len(fns[w].formals)) = fns[w].formals
  /\ fns[l].formals[Len(fns[l].formals)].name = "tag"
  /\ fns[l].formals[Len(fns[l].formals)].intent = "param"
  /\ fns[l].where = <<"==", "tag", "gLeaderTag">>

\* f is a follower of wrapper w: w's formals and then tag (param), the
\* follow-this formal and fast (param, default false), with where clause
\* tag == follower sentinel
IsFollowerOf(f, w) ==
  LET n == Len(fns[w].formals)
  IN  /\ fns[f].kind = "follower"
      /\ Len(fns[f].formals) = n + 3
      /\ SubSeq(fns[f].formals, 1, n) = fns[w].formals
      /\ fns[f].formals[n + 1].name = "tag"
      /\ fns[f].formals[n + 1].intent = "param"
      /\ fns[f].formals[n + 2].intent = "blank"
      /\ fns[f].formals[n + 2].type = <<"any">>
      /\ fns[f].formals[n + 3].name = "fast"
      /\ fns[f].formals[n + 3].intent = "param"
      /\ fns[f].formals[n + 3].dflt = "gFalse"
      /\ fns[f].where = <<"==", "tag", "gFollowerTag">>

\* C24 as stated: every promotion wrapper, whether its callee returns void
\* or a value, has a leader and a follower in the side tables.
C24_FamilyForEveryWrapper ==
  \A w \in PromotionWrappers :
    /\ \E l \in LeadersOf(w) : IsLeaderOf(l, w)
    /\ \E f \in FollowersOf(w) : IsFollowerOf(f, w)

\* C24, amended: a promotion wrapper of a callee that returns a value is an
\* iterator with exactly one leader and one follower in the side tables,
\* the leader with the param formal tag and where clause tag == leader
\* sentinel, the follower with the formals tag (param), follow-this and
\* fast (param, default false) and where clause tag == follower sentinel;
\* a promotion wrapper of a callee that returns void is not an iterator
\* and has neither a leader nor a follower.
C24_FamilyUnlessVoid ==
  \A w \in PromotionWrappers :
    IF fns[fns[w].of].isVoid
    THEN /\ LeadersOf(w) = {}
         /\ FollowersOf(w) = {}
         /\ "iterator_fn" \notin fns[w].flags
         /\ \A i \in DOMAIN fns : fns[i].kind \in {"leader", "follower"}
                                     => fns[i].of # w
    ELSE /\ "iterator_fn" \in fns[w].flags
         /\ Cardinality(LeadersOf(w)) = 1
         /\ Cardinality(FollowersOf(w)) = 1
         /\ \A l \in LeadersOf(w) : IsLeaderOf(l, w) /\ fns[l].of = w
         /\ \A f \in FollowersOf(w) : IsFollowerOf(f, w) /\ fns[f].of = w

C24_Witness ==
  /\ pc = "done"
  /\ cur.retval \in PromotionWrappers
  /\ fns[cur.fn].isVoid
  /\ fns[cur.retval].isVoid
  /\ LeadersOf(cur.retval) = {}
  /\ Len(fns) = 2

\* the positions of wrapper w that promote: those it retyped
PromotedOf(w) ==
  {j \in DOMAIN fns[w].formals :
     fns[w].formals[j].type # fns[fns[w].of].formals[j].type}

\* the loop statements of a body
LoopsOf(b) == {n \in DOMAIN b : b[n].op \in {"for", "forall"}}

\* the loop over the promoted formals is built from the one promoted
\* formal, unzippered, or from a tuple of all of them, zippered
LoopShape(lp, w, ownIterator) ==
  LET P == IncSeq(PromotedOf(w))
  IN  /\ lp.zippered <=> Len(P) >= 2
      /\ lp.indices.tuple <=> Len(P) >= 2
      /\ lp.indices.elems = [k \in 1..Len(P) |-> <<"p_i_", P[k]>>]
      /\ ownIterator =>
           /\ lp.iterator.tuple <=> Len(P) >= 2
           /\ lp.iterator.elems =
                [k \in 1..Len(P) |-> <<"formal", fns[w].formals[P[k]].name>>]

\* C25: with one promoted position the index and iterator tuples collapse
\* to their element and the loops of the wrapper, the leader and the
\* follower are not zippered and use _toLeader, _toFollower and
\* _toFastFollower; with two or more the tuples keep one element per
\* promoted position in formal order and the loops are zippered and use
\* the Zip variants; the members of a family agree on zipperedness.
C25_ZipperedByPromotedCount ==
  \A w \in PromotionWrappers :
    LET zip == Cardinality(PromotedOf(w)) >= 2
    IN  /\ Cardinality(LoopsOf(fns[w].body)) = 1
        /\ \A n \in LoopsOf(fns[w].body) : LoopShape(fns[w].body[n], w, TRUE)
        /\ \A l \in LeadersOf(w) :
             /\ fns[l].body[2].src
                  = <<IF zip THEN "_toLeaderZip" ELSE "_toLeader">>
             /\ fns[l].body[2].args[1].tuple <=> zip
             /\ \A n \in LoopsOf(fns[l].body) : fns[l].body[n].zippered <=> zip
        /\ \A f \in FollowersOf(w) :
             /\ fns[f].body[2].args[1].src
                  = <<IF zip THEN "_toFastFollowerZip" ELSE "_toFastFollower">>
             /\ fns[f].body[2].args[2].src
                  = <<IF zip THEN "_toFollowerZip" ELSE "_toFollower">>
             /\ \A n \in LoopsOf(fns[f].body) :
                  LoopShape(fns[f].body[n], w, FALSE)

C25_Witness ==
  /\ pc = "done"
  /\ cur.retval \in PromotionWrappers
  /\ Cardinality(PromotedOf(cur.retval)) = 2
  /\ LeadersOf(cur.retval) # {}
  /\ fns[cur.retval].body[1].zippered
  /\ fns[cur.retval].body[1].indices.elems = << <<"p_i_", 1>>, <<"p_i_", 2>> >>

\* the calls to the callee of wrapper w in loop lp pass, for a promoted
\* position, the loop's definition of the index of that position and, for
\* any other position, the formal of that position
CallsBound(lp, w) ==
  \A m \in DOMAIN lp.body :
    (\/ lp.body[m].op = "call"
     \/ lp.body[m].op = "move" /\ lp.body[m].src[1] = "call") =>
      /\ Len(lp.body[m].args) = Len(fns[w].formals)
      /\ \A j \in DOMAIN lp.body[m].args :
           IF j \in PromotedOf(w)
           THEN /\ lp.body[m].args[j] = <<"index", <<"p_i_", j>> >>
                /\ \E k \in DOMAIN lp.indices.elems :
                     lp.indices.elems[k] = <<"p_i_", j>>
           ELSE lp.body[m].args[j] = <<"formal", fns[w].formals[j].name>>

\* C26: the index names of a wrapper's promoted formals are pairwise
\* distinct, and once the wrapper is built every call to the callee in the
\* wrapper and in its follower passes, for each promoted position, the
\* definition of the index of that name in the enclosing loop and, for the
\* other positions, the formals; a name without a definition stops the
\* compiler on the internal assertion.
C26_IndexNamesBound ==
  \A w \in PromotionWrappers :
    \/ pc = "halted" /\ cur.halt = "INT_ASSERT" /\ cur.retval = w
    \/ /\ \A n \in LoopsOf(fns[w].body) :
             /\ CallsBound(fns[w].body[n], w)
             /\ \A k1, k2 \in DOMAIN fns[w].body[n].indices.elems :
                  fns[w].body[n].indices.elems[k1]
                    = fns[w].body[n].indices.elems[k2] => k1 = k2
             /\ \E m \in DOMAIN fns[w].body[n].body :
                  fns[w].body[n].body[m].args # << >>
       /\ \A f \in FollowersOf(w) :
            \A n \in LoopsOf(fns[f].body) :
              /\ CallsBound(fns[f].body[n], w)
              /\ \E m \in DOMAIN fns[f].body[n].body :
                   fns[f].body[n].body[m].args # << >>

C26_Witness ==
  /\ pc = "done"
  /\ cur.retval \in PromotionWrappers
  /\ FollowersOf(cur.retval) # {}
  /\ PromotedOf(cur.retval) = {2}
  /\ \E f \in FollowersOf(cur.retval) :
       fns[f].body[3].body[2].args
         = << <<"formal", "x">>, <<"index", <<"p_i_", 2>> >> >>

\* the fast-follower probes generated for wrapper w
ProbesOf(w) == {i \in DOMAIN fns : fns[i].kind = "probe" /\ fns[i].of = w}

\* the shape of a probe: static or dynamic, with or without the lead formal
ProbeShape(i) == <<fns[i].retTag = "param", Len(fns[i].formals) = 2>>

\* {static, dynamic} x {with lead, without lead}
HasFourProbes(w) ==
  /\ Cardinality(ProbesOf(w)) = 4
  /\ \A st \in BOOLEAN, lead \in BOOLEAN :
       \E i \in ProbesOf(w) : ProbeShape(i) = <<st, lead>>

\* the call was returned an iterator promotion wrapper
ReturnedIteratorWrapper ==
  /\ pc = "done"
  /\ cur.retval \in PromotionWrappers
  /\ "iterator_fn" \in fns[cur.retval].flags

\* C27 as stated: a call made with fast-follower checks enabled that is
\* returned an iterator promotion wrapper finds the four probes generated
\* for it, also when the wrapper comes from the promotion cache.
C27_ProbesForEveryCheckedCall ==
  (ReturnedIteratorWrapper /\ cur.ffc) => HasFourProbes(cur.retval)

\* C27, amended: the four probes of an iterator promotion wrapper are
\* generated when the wrapper is built, and only if the call that builds it
\* has the checks enabled; a call that is returned the wrapper from the
\* promotion cache generates nothing, so a checked call served a wrapper
\* first built by an unchecked call finds no probes; no probe is generated
\* by a call with the checks disabled.
C27_ProbesOnlyWhenBuiltChecked ==
  /\ \A w \in PromotionWrappers : ProbesOf(w) = {} \/ HasFourProbes(w)
  /\ ~cur.ffc => cur.pBuilt <= 3
  /\ ReturnedIteratorWrapper =>
       IF cur.pSeen
       THEN cur.pBuilt = 0
       ELSE /\ cur.pBuilt = IF cur.ffc THEN 7 ELSE 3
            /\ HasFourProbes(cur.retval) <=> cur.ffc

C27_Witness ==
  /\ ReturnedIteratorWrapper
  /\ cur.ffc
  /\ cur.pSeen
  /\ cur.pBuilt = 0
  /\ ProbesOf(cur.retval) = {}

\* the positions whose call-info symbol promotes to the callee's formal
InfoPromotes ==
  {j \in DOMAIN ciActuals :
     promotes(ciActuals[j], fns[cur.retval].formals[j], fns[cur.retval].name)}

\* C28: the coercion stage leaves the call-info record as it found it: its
\* actual symbols and actual names are unchanged by every step of the
\* stage, also at a position whose expression in the call became a
\* coerce_tmp or a C-string literal; the promotion stage then decides from
\* those symbols, and types the wrapper's promoted formals from their
\* types, not from the coerced expressions of the call.
C28_CoercionKeepsCallInfo ==
  [][/\ pc \in {"coerce", "coerce_loop", "coerce_end"} =>
          /\ ciActuals' = ciActuals
          /\ ciActualNames' = ciActualNames
     /\ pc = "promote" =>
          /\ \A j \in DOMAIN ciActuals : ciActuals[j].tag = "actual"
          /\ (cur'.retval # cur.retval) <=>
               (InfoPromotes # {} /\ ~IsAssignOrTypeConstructor(cur.retval))
          /\ (cur'.retval # cur.retval) =>
               \A j \in InfoPromotes :
                 fns'[cur'.retval].formals[j].type
                   = promotionActualType(ciActuals[j].type)]_vars

C28_Witness ==
  /\ pc = "done"
  /\ cur.retval \in PromotionWrappers
  /\ Len(ciActuals) = 1
  /\ ciActuals[1].tag = "actual"
  /\ ciActuals[1].type = <<"sync", "array">>
  /\ callActuals[1].sym.tag = "coerce_tmp"
  /\ callActuals[1].sym.type = <<"array">>
  /\ fns[cur.retval].formals[1].type = <<"sync", "array">>

====
